---- MODULE Spec2Model ----
(***************************************************************************)
(* vical: entity model (subcalendars and calendar items), Op/Transaction   *)
(* log, register store, operator executor and the normal-mode key grammar. *)
(*                                                                         *)
(* Python objects are modelled by their uid.  `item` is the heap of        *)
(* CalendarItem objects (attached or detached), `subcalendars` maps a      *)
(* subcalendar uid to its `items` list.  parent_subcal = None is 0.        *)
(***************************************************************************)
EXTENDS Integers, Sequences, FiniteSets, TLC

VARIABLES
    item,           \* uid -> CalendarItem fields (kind, name, date, completed, parent)
    subcalendars,   \* subcalendar uid -> Subcalendar.items (list of item uids)
    current_tx,     \* editor.history.current_tx: <<>> (None) or <<tx>>
    undo_stack,     \* editor.history.undo_stack
    redo_stack,     \* editor.history.redo_stack
    next_id,        \* Transaction._next_id
    regs,           \* Register._regs: register name -> list of payloads
    selected_date,  \* editor.selected_date (proleptic Gregorian ordinal of the day)
    today,          \* date.today() of the run (ordinal)
    selected_item_index, \* editor.selected_item_index
    cmdargs,        \* KeyParser.cmdargs (CmdArgs)
    halted,         \* an uncaught exception left the main loop
    saved_tx,       \* editor._saved_tx: <<>> (None) or <<id of the transaction>>
    exited,         \* SystemExit left the main loop
    subcal,         \* editor.subcalendars (list of subcalendar uids), each Subcalendar's
                    \* name, color and hidden, and editor.selected_subcal_index
    input_buffer,   \* KeyParser.input_buffer (sequence of characters)
    editor_mode,    \* editor.mode (Mode of src/vical/core/editor.py)
    prompt,         \* editor.prompt: <<>> (None) or <<[label, user_input, on_submit]>>
    limits,         \* bounds of the run: [maxTx, maxOps, maxHistory]
    lastAct,        \* observer: the operation that produced this state
    obs             \* observer: snapshots taken by the operations

vars == <<item, subcalendars, current_tx, undo_stack, redo_stack, next_id,
          regs, selected_date, today, selected_item_index, cmdargs, halted, limits,
          saved_tx, exited, subcal, input_buffer, editor_mode, prompt, lastAct, obs>>

----------------------------------------------------------------------------
(* Bounds *)

MaxTx == 2          \* transactions begun in one run of the log specification
MaxOps == 2         \* ops recorded in one run of the log specification
MAX_HISTORY == 2     \* settings.max_history, scaled down from 50
MaxOperators == 3    \* operator calls in one run of the operator specification
MaxUnits == 3        \* key sequences typed in one run of the key specification
MaxBuf == 3          \* characters typed into the command buffer

ItemUids == {1, 2, 3}
SubcalUids == {1, 2}
Names == {"a", "B"}
Dates == {1, 2}
\* Subcalendar objects: the loaded ones and those new_subcal can make
SubcalObjs == SubcalUids \cup {3}

----------------------------------------------------------------------------
(* Entity model: src/vical/core/subcalendar.py *)

\* str.lower() on the names of the model
lower(name) == CASE name = "B" -> "b" [] name = "C" -> "c" [] OTHER -> name

\* Python compares str by code point
CodePoint(ch) == CASE ch = "B" -> 66 [] ch = "a" -> 97 [] ch = "b" -> 98

\* Event.sort_key / Task.sort_key second component
type_rank(kind) == IF kind = "event" THEN 0 ELSE 1

\* sort_key(): (sort_date, type rank, name.lower())
sort_key(it) == <<it.date, type_rank(it.kind), CodePoint(lower(it.name))>>

\* tuple comparison k1 < k2 (lexicographic)
KeyLess(k1, k2) ==
    \/ k1[1] < k2[1]
    \/ k1[1] = k2[1] /\ k1[2] < k2[2]
    \/ k1[1] = k2[1] /\ k1[2] = k2[2] /\ k1[3] < k2[3]

\* one step of a stable insertion: x goes after every element whose key is <= its key
RECURSIVE SortedInsert(_, _, _)
SortedInsert(list, x, its) ==
    IF list = <<>> THEN <<x>>
    ELSE IF KeyLess(sort_key(its[x]), sort_key(its[Head(list)]))
         THEN <<x>> \o list
         ELSE <<Head(list)>> \o SortedInsert(Tail(list), x, its)

\* list.sort(key=lambda i: i.sort_key()): stable, ascending
RECURSIVE StableSort(_, _)
StableSort(list, its) ==
    IF list = <<>> THEN <<>>
    ELSE SortedInsert(StableSort(SubSeq(list, 1, Len(list) - 1), its),
                      list[Len(list)], its)

NoSort(list, its) == list
ItemsSort(list, its) == StableSort(list, its)

InList(list, x) == \E k \in 1..Len(list) : list[k] = x

\* list.remove(x): drops the first occurrence (the caller checks InList)
RECURSIVE ListRemove(_, _)
ListRemove(list, x) ==
    IF list = <<>> THEN <<>>
    ELSE IF Head(list) = x THEN Tail(list)
         ELSE <<Head(list)>> \o ListRemove(Tail(list), x)

\* The entity model as one value: the item heap and the subcalendar lists
World == [item |-> item, subcalendars |-> subcalendars]

\* Editor.get_item_by_uid: the item is found iff some subcalendar lists it
get_item_by_uid(w, uid) == \E sc \in SubcalUids : InList(w.subcalendars[sc], uid)

\* item.parent_subcal = sc; sc.items.append(item); sc.items.sort(...)
Attach(w, sc, i) ==
    LET its == [w.item EXCEPT ![i].parent = sc]
    IN [item |-> its,
        subcalendars |-> [w.subcalendars EXCEPT
                            ![sc] = ItemsSort(Append(@, i), its)]]

\* sc.items.remove(item); item.parent_subcal = None; sc.items.sort(...)
Detach(w, sc, i) ==
    LET its == [w.item EXCEPT ![i].parent = 0]
    IN [item |-> its,
        subcalendars |-> [w.subcalendars EXCEPT
                            ![sc] = ItemsSort(ListRemove(@, i), its)]]

\* setattr(item, attr, value)
SetAttr(w, i, attr, value) ==
    [w EXCEPT !.item[i] = IF attr = "name" THEN [@ EXCEPT !.name = value]
                          ELSE [@ EXCEPT !.completed = value]]

getattr(w, i, attr) == IF attr = "name" THEN w.item[i].name ELSE w.item[i].completed

----------------------------------------------------------------------------
(* Ops and transactions: src/vical/core/transaction.py *)

\* Op objects.  Unused fields hold "" / 0; `attr` is compared first.
OpSetItemAttr(i, attr, old, new) ==
    [attr |-> attr, dst |-> 0, item |-> i, new |-> new, old |-> old, sc |-> 0, type |-> "set"]
OpInsertItem(sc, i) ==
    [attr |-> "", dst |-> 0, item |-> i, new |-> 0, old |-> 0, sc |-> sc, type |-> "insert"]
OpRemoveItem(sc, i) ==
    [attr |-> "", dst |-> 0, item |-> i, new |-> 0, old |-> 0, sc |-> sc, type |-> "remove"]
OpMoveItem(i, src, dst) ==
    [attr |-> "", dst |-> dst, item |-> i, new |-> 0, old |-> 0, sc |-> src, type |-> "move"]

\* The result of running code that may raise: ok = FALSE is an exception,
\* and w is the entity model as the code left it when it raised.
Ok(w) == [ok |-> TRUE, w |-> w]
Raised(w) == [ok |-> FALSE, w |-> w]

\* OpSetItemAttr.apply / revert: assert item is not None; setattr
OpSetItemAttr_apply(op, w) ==
    IF ~get_item_by_uid(w, op.item) THEN Raised(w)
    ELSE Ok(SetAttr(w, op.item, op.attr, op.new))
OpSetItemAttr_revert(op, w) ==
    IF ~get_item_by_uid(w, op.item) THEN Raised(w)
    ELSE Ok(SetAttr(w, op.item, op.attr, op.old))

\* OpInsertItem.apply / OpRemoveItem.revert
OpInsertItem_apply(op, w) == Ok(Attach(w, op.sc, op.item))
\* OpInsertItem.revert / OpRemoveItem.apply: list.remove raises ValueError
OpInsertItem_revert(op, w) ==
    IF ~InList(w.subcalendars[op.sc], op.item) THEN Raised(w)
    ELSE Ok(Detach(w, op.sc, op.item))
OpRemoveItem_apply(op, w) ==
    IF ~InList(w.subcalendars[op.sc], op.item) THEN Raised(w)
    ELSE Ok(Detach(w, op.sc, op.item))
OpRemoveItem_revert(op, w) == Ok(Attach(w, op.sc, op.item))

\* src.items.remove(item); sort; item.parent_subcal = dst; dst.items.append; sort
MoveBetween(w, i, src, dst) ==
    IF ~get_item_by_uid(w, i) \/ ~InList(w.subcalendars[src], i) THEN Raised(w)
    ELSE Ok(Attach(Detach(w, src, i), dst, i))
OpMoveItem_apply(op, w) == MoveBetween(w, op.item, op.sc, op.dst)
OpMoveItem_revert(op, w) == MoveBetween(w, op.item, op.dst, op.sc)

Op_apply(op, w) ==
    CASE op.type = "set" -> OpSetItemAttr_apply(op, w)
      [] op.type = "insert" -> OpInsertItem_apply(op, w)
      [] op.type = "remove" -> OpRemoveItem_apply(op, w)
      [] op.type = "move" -> OpMoveItem_apply(op, w)
Op_revert(op, w) ==
    CASE op.type = "set" -> OpSetItemAttr_revert(op, w)
      [] op.type = "insert" -> OpInsertItem_revert(op, w)
      [] op.type = "remove" -> OpRemoveItem_revert(op, w)
      [] op.type = "move" -> OpMoveItem_revert(op, w)

\* Transaction.apply: for op in self.ops: op.apply(editor)
RECURSIVE ApplyFrom(_, _, _)
ApplyFrom(ops, k, w) ==
    IF k > Len(ops) THEN Ok(w)
    ELSE LET r == Op_apply(ops[k], w)
         IN IF r.ok THEN ApplyFrom(ops, k + 1, r.w) ELSE r
Transaction_apply(tx, w) == ApplyFrom(tx.ops, 1, w)

\* Transaction.revert: for op in reversed(self.ops): op.revert(editor)
RECURSIVE RevertFrom(_, _, _)
RevertFrom(ops, k, w) ==
    IF k < 1 THEN Ok(w)
    ELSE LET r == Op_revert(ops[k], w)
         IN IF r.ok THEN RevertFrom(ops, k - 1, r.w) ELSE r
Transaction_revert(tx, w) == RevertFrom(tx.ops, Len(tx.ops), w)

\* Transaction(label): id = _next_id, ops = []  (the label is display only)
Transaction(id) == [id |-> id, ops |-> <<>>]

\* record(editor, op): tx.ops.append(op)
record(op) == <<[current_tx[1] EXCEPT !.ops = Append(@, op)]>>

\* commit_transaction, line 190: if tx.ops
AnyTx(tx) == TRUE
has_ops(tx) == tx.ops # <<>>

\* commit_transaction, line 192: editor.history.redo_stack.clear()
RedoKept(stack) == stack
redo_clear(stack) == <<>>

\* Editor.dirty, for the given _saved_tx and undo stack
Dirty(saved, stack) ==
    IF stack = <<>> THEN FALSE ELSE saved # <<stack[Len(stack)].id>>
dirty == Dirty(saved_tx, undo_stack)

\* commit_transaction, lines 190-195: push, then evict the oldest entry
PushNoEvict(stack, tx) == Append(stack, tx)
PushEvictNewest(stack, tx) ==
    IF Len(Append(stack, tx)) > limits.maxHistory THEN stack ELSE Append(stack, tx)
PushHistory(stack, tx) ==
    LET pushed == Append(stack, tx)
    IN IF Len(pushed) > limits.maxHistory THEN Tail(pushed) ELSE pushed

----------------------------------------------------------------------------
(* Observer helpers (not program state) *)

Last(seq) == seq[Len(seq)]
Front(seq) == SubSeq(seq, 1, Len(seq) - 1)
\* the last n entries of seq
LastN(seq, n) == IF Len(seq) <= n THEN seq ELSE SubSeq(seq, Len(seq) - n + 1, Len(seq))
TxIds(stack) == [k \in 1..Len(stack) |-> stack[k].id]

\* "no snapshot": the observer holds a snapshot only while a formula reads it
NoSnap == <<>>
Obs0 ==
    [txStart |-> NoSnap,    \* <<model, undo_stack, redo_stack>> at the last begin
     rolledOps |-> 0,       \* ops recorded by the block that was rolled back
     pre_undo |-> <<>>,     \* for each entry of undo_stack, the model before it was applied
     expect |-> NoSnap,     \* <<the model before the transaction undone last>>
     before |-> NoSnap,     \* <<model, undo_stack, redo_stack>> before the last call observed
                            \* (with editor.dirty as a fourth entry before an empty commit)
     commits |-> <<>>,      \* ids of the non-empty transactions committed, in order
     clean |-> TRUE,        \* no exception was raised so far
     noUndo |-> TRUE,       \* no undo or redo was called so far
     attrSet |-> FALSE,     \* some attribute-set was recorded so far
     nOps |-> 0,            \* ops recorded so far
     deletes |-> <<>>,      \* payload lists of the deletes on a non-empty target set
     regsBefore |-> <<>>,   \* the registers before the last operator
     targets |-> <<>>,      \* target_items of the last operator
     regname |-> "",        \* regname of the last operator
     delRegnames |-> {},    \* regnames of the deletes on a non-empty target set
     yankNumbered |-> FALSE, \* a yank was called with one of the registers 1-9
     typed |-> <<>>,        \* keys fed since the last complete key sequence
     done |-> <<>>,         \* the key sequence the last key completed, if it did
     unitStart |-> <<>>,    \* <<state>> before the first key of that sequence
     units |-> 0,           \* key sequences begun
     txBefore |-> NoSnap,   \* current_tx before the last call made in the wrong log state
     raisedErr |-> FALSE,   \* that call raised an error
     sameValue |-> FALSE,   \* that call was an attribute-set with new = old
     failedSave |-> FALSE,  \* the last save raised
     atFail |-> NoSnap,     \* <<model, undo_stack, redo_stack, saved_tx>> before that save
     atSave |-> NoSnap,     \* <<undo_stack, model>> at the last save that succeeded
     dirtyBefore |-> FALSE, \* editor.dirty before the last operator
     idBefore |-> 0,        \* Transaction._next_id before the last operator
     text |-> "",           \* text of the last change operator
     called |-> <<>>,       \* the commands the g command called for the last key
     notice |-> <<>>]       \* <<command word>> of the error notice the last key gave

----------------------------------------------------------------------------
(* The transaction log as used by a caller: one step per call *)

InBlock == ~halted /\ ~exited /\ current_tx # <<>>
Idle == ~halted /\ ~exited /\ current_tx = <<>>

UNCHANGED_ui == UNCHANGED <<regs, selected_date, selected_item_index, cmdargs, limits, today, saved_tx, exited, subcal, input_buffer, editor_mode, prompt>>

\* begin_transaction (the entry of transaction_block)
begin_transaction ==
    /\ Idle
    /\ next_id <= limits.maxTx
    /\ current_tx' = <<Transaction(next_id)>>
    /\ next_id' = next_id + 1
    /\ obs' = [obs EXCEPT !.txStart = <<World, undo_stack, redo_stack>>,
                          !.rolledOps = 0, !.expect = NoSnap, !.before = NoSnap]
    /\ lastAct' = "begin"
    /\ UNCHANGED <<item, subcalendars, undo_stack, redo_stack, halted>>
    /\ UNCHANGED_ui

\* rollback_transaction, reached from the except branch of transaction_block:
\* editor.history.current_tx = None, and nothing else
rollback_transaction ==
    /\ current_tx' = <<>>
    /\ obs' = [obs EXCEPT !.clean = FALSE, !.rolledOps = Len(current_tx[1].ops)]
    /\ lastAct' = "rollback"
    /\ UNCHANGED <<item, subcalendars, undo_stack, redo_stack, next_id, halted>>
    /\ UNCHANGED_ui

Recorded(op, w) ==
    /\ current_tx' = record(op)
    /\ item' = w.item
    /\ subcalendars' = w.subcalendars
    /\ UNCHANGED <<undo_stack, redo_stack, next_id, halted>>
    /\ UNCHANGED_ui

\* tx_insert_item(editor, subcal, item) inside a transaction block
tx_insert_item(sc, i) ==
    /\ InBlock
    /\ i \in limits.items
    /\ IF item[i].parent # 0
       THEN rollback_transaction                  \* assert item.parent_subcal is None
       ELSE /\ obs.nOps < limits.maxOps
            /\ Recorded(OpInsertItem(sc, i), Attach(World, sc, i))
            /\ lastAct' = "insert"
            /\ obs' = [obs EXCEPT !.nOps = @ + 1]

\* tx_remove_item(editor, item) inside a transaction block
tx_remove_item(i) ==
    /\ InBlock
    /\ i \in limits.items
    /\ IF item[i].parent = 0
       THEN rollback_transaction                  \* assert subcal is not None
       ELSE /\ obs.nOps < limits.maxOps
            /\ Recorded(OpRemoveItem(item[i].parent, i), Detach(World, item[i].parent, i))
            /\ lastAct' = "remove"
            /\ obs' = [obs EXCEPT !.nOps = @ + 1]

\* tx_move_item(editor, item, dst_subcal) inside a transaction block
tx_move_item(i, dst) ==
    /\ InBlock
    /\ i \in limits.items
    /\ IF item[i].parent = 0 \/ item[i].parent = dst
       THEN rollback_transaction                  \* the two asserts
       ELSE /\ obs.nOps < limits.maxOps
            /\ Recorded(OpMoveItem(i, item[i].parent, dst),
                        Attach(Detach(World, item[i].parent, i), dst, i))
            /\ lastAct' = "move"
            /\ obs' = [obs EXCEPT !.nOps = @ + 1]

\* tx_set_item_attr(editor, item, attr, new) inside a transaction block,
\* on an item taken from a subcalendar's list
tx_set_item_attr(i, attr, new) ==
    /\ InBlock
    /\ i \in limits.items
    /\ limits.attrs
    /\ item[i].parent # 0
    /\ IF getattr(World, i, attr) = new
       THEN /\ UNCHANGED <<item, subcalendars, current_tx, undo_stack, redo_stack,
                           next_id, halted, obs>>
            /\ UNCHANGED_ui
            /\ lastAct' = "set_same"
       ELSE /\ obs.nOps < limits.maxOps
            /\ Recorded(OpSetItemAttr(i, attr, getattr(World, i, attr), new),
                        SetAttr(World, i, attr, new))
            /\ lastAct' = "set"
            /\ obs' = [obs EXCEPT !.attrSet = TRUE, !.nOps = @ + 1]

\* commit_transaction (the else branch of transaction_block)
commit_transaction ==
    /\ InBlock
    /\ LET tx == current_tx[1]
       IN /\ IF has_ops(tx)
             THEN /\ undo_stack' = PushHistory(undo_stack, tx)
                  /\ redo_stack' = redo_clear(redo_stack)
             ELSE UNCHANGED <<undo_stack, redo_stack>>
          /\ IF tx.ops # <<>>
             THEN /\ obs' = [obs EXCEPT
                            !.pre_undo = LastN(Append(@, obs.txStart[1]), Len(undo_stack')),
                            !.commits = Append(@, tx.id), !.txStart = NoSnap]
                  /\ lastAct' = "commit"
             ELSE /\ obs' = [obs EXCEPT !.txStart = NoSnap,
                                        !.before = <<World, undo_stack, redo_stack, dirty>>]
                  /\ lastAct' = IF lastAct = "set_same" THEN "commit_unchanged"
                                ELSE "commit_empty"
    /\ current_tx' = <<>>
    /\ UNCHANGED <<item, subcalendars, next_id, halted>>
    /\ UNCHANGED_ui

\* tx_undo
tx_undo ==
    /\ Idle
    /\ IF undo_stack = <<>>
       THEN /\ UNCHANGED <<item, subcalendars, undo_stack, redo_stack, halted>>
            /\ obs' = [obs EXCEPT !.before = <<World, undo_stack, redo_stack>>, !.noUndo = FALSE, !.expect = NoSnap,
                                  !.txStart = NoSnap, !.rolledOps = 0]
            /\ lastAct' = "undo_empty"
       ELSE LET tx == Last(undo_stack)
                r == Transaction_revert(tx, World)
            IN /\ undo_stack' = Front(undo_stack)
               /\ item' = r.w.item
               /\ subcalendars' = r.w.subcalendars
               /\ IF r.ok
                  THEN /\ redo_stack' = Append(redo_stack, tx)
                       /\ halted' = FALSE
                       /\ lastAct' = "undo"
                       /\ obs' = [obs EXCEPT !.before = <<World, undo_stack, redo_stack>>, !.noUndo = FALSE,
                                             !.expect = <<Last(obs.pre_undo)>>,
                                             !.pre_undo = Front(@),
                                             !.txStart = NoSnap, !.rolledOps = 0]
                  ELSE /\ redo_stack' = redo_stack
                       /\ halted' = TRUE
                       /\ lastAct' = "undo_raised"
                       /\ obs' = [obs EXCEPT !.clean = FALSE, !.noUndo = FALSE,
                                             !.before = <<World, undo_stack, redo_stack>>]
    /\ UNCHANGED <<current_tx, next_id>>
    /\ UNCHANGED_ui

\* tx_redo
tx_redo ==
    /\ Idle
    /\ IF redo_stack = <<>>
       THEN /\ UNCHANGED <<item, subcalendars, undo_stack, redo_stack, halted>>
            /\ obs' = [obs EXCEPT !.before = <<World, undo_stack, redo_stack>>, !.noUndo = FALSE, !.expect = NoSnap,
                                  !.txStart = NoSnap, !.rolledOps = 0]
            /\ lastAct' = "redo_empty"
       ELSE LET tx == Last(redo_stack)
                r == Transaction_apply(tx, World)
            IN /\ redo_stack' = Front(redo_stack)
               /\ item' = r.w.item
               /\ subcalendars' = r.w.subcalendars
               /\ IF r.ok
                  THEN /\ undo_stack' = Append(undo_stack, tx)
                       /\ halted' = FALSE
                       /\ lastAct' = IF lastAct = "undo" THEN "redo_after_undo" ELSE "redo"
                       /\ obs' = [obs EXCEPT !.noUndo = FALSE, !.expect = NoSnap,
                                             !.before = <<World, undo_stack, redo_stack>>,
                                             !.pre_undo = Append(@, World),
                                             !.txStart = NoSnap, !.rolledOps = 0]
                  ELSE /\ undo_stack' = undo_stack
                       /\ halted' = TRUE
                       /\ lastAct' = "redo_raised"
                       /\ obs' = [obs EXCEPT !.clean = FALSE, !.noUndo = FALSE,
                                             !.before = <<World, undo_stack, redo_stack>>]
    /\ UNCHANGED <<current_tx, next_id>>
    /\ UNCHANGED_ui

----------------------------------------------------------------------------
(* The transaction log called in the wrong state *)

\* begin_transaction while current_tx is not None, lines 173-174: RuntimeError
\* before anything is assigned; the result is [raised, tx] with tx the
\* current_tx after the call
begin_while_open(tx_open, id) == [raised |-> TRUE, tx |-> tx_open]

begin_transaction_open ==
    /\ InBlock
    /\ LET r == begin_while_open(current_tx, next_id)
       IN /\ current_tx' = r.tx
          /\ obs' = [obs EXCEPT !.before = <<World, undo_stack, redo_stack>>,
                                !.txBefore = current_tx, !.raisedErr = r.raised,
                                !.sameValue = FALSE]
    /\ lastAct' = "begin_open"
    /\ UNCHANGED <<item, subcalendars, undo_stack, redo_stack, next_id, halted>>
    /\ UNCHANGED_ui

\* a tx_* helper called while current_tx is None: its asserts, then record(),
\* which raises RuntimeError before the helper mutates; tx_set_item_attr
\* returns before record() when old == new.  The result is [raised, w].
MutateThenRecord(h, w, i, sc, new) ==
    [raised |-> TRUE,
     w |-> CASE h = "insert" -> IF w.item[i].parent = 0 THEN Attach(w, sc, i) ELSE w
             [] h = "remove" -> IF w.item[i].parent # 0 THEN Detach(w, w.item[i].parent, i) ELSE w
             [] h = "move" -> IF w.item[i].parent # 0 THEN MoveBetween(w, i, w.item[i].parent, sc).w ELSE w
             [] h = "set" -> SetAttr(w, i, "name", new)]
helper_while_idle(h, w, i, sc, new) ==
    IF h = "set" /\ getattr(w, i, "name") = new
    THEN [raised |-> FALSE, w |-> w]
    ELSE [raised |-> TRUE, w |-> w]

tx_helper_idle(h, i, sc, new) ==
    /\ Idle
    /\ i \in limits.items
    /\ LET r == helper_while_idle(h, World, i, sc, new)
       IN /\ item' = r.w.item
          /\ subcalendars' = r.w.subcalendars
          /\ obs' = [obs EXCEPT !.before = <<World, undo_stack, redo_stack>>,
                                !.txBefore = current_tx, !.raisedErr = r.raised,
                                !.sameValue = (h = "set" /\ getattr(World, i, "name") = new)]
    /\ lastAct' = "helper_idle"
    /\ UNCHANGED <<current_tx, undo_stack, redo_stack, next_id, halted>>
    /\ UNCHANGED_ui

----------------------------------------------------------------------------
(* Saving and quitting: src/vical/core/editor.py, src/vical/core/commands.py, *)
(* src/vical/commands/ex_cmds.py.  `saves` is whether the persistence call    *)
(* returns (TRUE) or raises (FALSE).                                          *)

\* Editor.mark_saved: the value of _saved_tx after it
NeverSaved(stack) == <<>>
mark_saved(stack) == IF stack # <<>> THEN <<Last(stack).id>> ELSE <<>>

SaveObs(saves) ==
    [obs EXCEPT !.failedSave = ~saves,
                !.atFail = IF saves THEN NoSnap
                           ELSE <<World, undo_stack, redo_stack, saved_tx>>,
                !.atSave = IF saves THEN <<undo_stack, World>> ELSE @]

UNCHANGED_session ==
    UNCHANGED <<item, subcalendars, current_tx, undo_stack, redo_stack, next_id,
                regs, selected_date, selected_item_index, cmdargs, limits, today,
                subcal, input_buffer, editor_mode, prompt>>

\* commands.write: an exception of save_subcalendars is caught and reported,
\* then mark_saved() runs in either case
write(saves) ==
    /\ Idle
    /\ saved_tx' = mark_saved(undo_stack)
    /\ obs' = SaveObs(saves)
    /\ lastAct' = IF saves THEN "write" ELSE "write_failed"
    /\ UNCHANGED <<halted, exited>>
    /\ UNCHANGED_session

\* commands.quit
quit ==
    /\ Idle
    /\ exited' = ~dirty
    /\ lastAct' = "quit"
    /\ UNCHANGED <<saved_tx, halted, obs>>
    /\ UNCHANGED_session

\* commands.quit_bang
quit_bang ==
    /\ Idle
    /\ exited' = TRUE
    /\ lastAct' = "quit_bang"
    /\ UNCHANGED <<saved_tx, halted, obs>>
    /\ UNCHANGED_session

\* commands.write_quit: write(editor), then quit(editor)
write_quit(saves) ==
    /\ Idle
    /\ saved_tx' = mark_saved(undo_stack)
    /\ exited' = ~Dirty(saved_tx', undo_stack)
    /\ obs' = SaveObs(saves)
    /\ lastAct' = IF saves THEN "write_quit" ELSE "write_quit_failed"
    /\ UNCHANGED halted
    /\ UNCHANGED_session

\* ExCmds.ex_write: an exception of save_subcalendars_local_json is not
\* caught, neither here nor in the key parser nor in the main loop
ex_write(saves) ==
    /\ Idle
    /\ saved_tx' = IF saves THEN mark_saved(undo_stack) ELSE saved_tx
    /\ halted' = ~saves
    /\ obs' = SaveObs(saves)
    /\ lastAct' = IF saves THEN "ex_write" ELSE "ex_write_failed"
    /\ UNCHANGED exited
    /\ UNCHANGED_session

\* ExCmds.ex_quit
ex_quit ==
    /\ Idle
    /\ exited' = ~dirty
    /\ lastAct' = "ex_quit"
    /\ UNCHANGED <<saved_tx, halted, obs>>
    /\ UNCHANGED_session

\* ExCmds.ex_quit_bang
ex_quit_bang ==
    /\ Idle
    /\ exited' = TRUE
    /\ lastAct' = "ex_quit_bang"
    /\ UNCHANGED <<saved_tx, halted, obs>>
    /\ UNCHANGED_session

\* ExCmds.ex_write_quit: ex_write(cmdargs), then ex_quit(cmdargs)
ex_write_quit(saves) ==
    /\ Idle
    /\ saved_tx' = IF saves THEN mark_saved(undo_stack) ELSE saved_tx
    /\ halted' = ~saves
    /\ exited' = (saves /\ ~Dirty(saved_tx', undo_stack))
    /\ obs' = SaveObs(saves)
    /\ lastAct' = IF saves THEN "ex_write_quit" ELSE "ex_write_quit_failed"
    /\ UNCHANGED_session

----------------------------------------------------------------------------
(* Initial states *)

\* Register(): every register holds an empty list.  Of the named registers
\* a-z the model keeps "a".
RegNames == {"\"", "0", "-", "1", "2", "3", "4", "5", "6", "7", "8", "9", "a"}
Register0 == [r \in RegNames |-> <<>>]
NumberedRegs == {"1", "2", "3", "4", "5", "6", "7", "8", "9"}

\* CmdArgs class attributes
\* (a motion of None is <<>>; count_buffer is the string as a list of characters;
\* ex_params is the list of parameter words, <<>> for None as for [])
CmdArgs0(t) ==
    [key |-> "", next_key |-> "", op_pending_key |-> "", motion_pending_cmd |-> FALSE,
     motion |-> <<>>, count_buffer |-> <<>>, motion_count |-> 1, op_count |-> 1,
     regname |-> "\"", mode |-> "NORMAL", last_date_before_goto |-> t,
     ex_params |-> <<>>]

\* The items of a run: Task(name, tdate) / Event(name, start_date, end_date)
NewItem(kind, name, date) ==
    [kind |-> kind, name |-> name, date |-> date, completed |-> FALSE, parent |-> 0]

EmptyWorld(its) == [item |-> its, subcalendars |-> [sc \in SubcalUids |-> <<>>]]

\* Subcalendar.from_dict: sc.insert_item(item) for each stored item, in file order
RECURSIVE load_subcalendars(_, _, _)
load_subcalendars(w, place, k) ==
    IF k > Cardinality(ItemUids) THEN w
    ELSE load_subcalendars(IF place[k] = 0 THEN w ELSE Attach(w, place[k], k), place, k + 1)

\* the subcalendars loaded at start-up: Subcalendar(name, color = "green"),
\* hidden = False, selected_subcal_index = 0
Subcals0 ==
    [order |-> [k \in 1..Cardinality(SubcalUids) |-> k],
     info |-> [sc \in SubcalObjs |->
                 [name |-> IF sc \in SubcalUids THEN "a" ELSE "", color |-> "green",
                  hidden |-> FALSE]],
     selected |-> 0]

InitEditor(w, t) ==
    /\ item = w.item
    /\ subcalendars = w.subcalendars
    /\ current_tx = <<>>
    /\ undo_stack = <<>>
    /\ redo_stack = <<>>
    /\ next_id = 1
    /\ regs = Register0
    /\ today = t
    /\ selected_date = t
    /\ selected_item_index = 0
    /\ cmdargs = CmdArgs0(t)
    /\ halted = FALSE
    /\ saved_tx = <<>>
    /\ exited = FALSE
    /\ subcal = Subcals0
    /\ input_buffer = <<>>
    /\ editor_mode = "NORMAL"
    /\ prompt = <<>>
    /\ lastAct = "init"
    /\ obs = Obs0

\* Log specification: two items loaded into subcalendar 1, item 2 sorting
\* before item 1 by name or by date
TxItems == {1, 2}
TxLoads ==
    { <<NewItem("task", "B", 2), NewItem("task", "a", 2)>>,
      <<NewItem("event", "a", 2), NewItem("task", "B", 1)>> }
InitTx ==
    \E load \in TxLoads :
        /\ InitEditor(load_subcalendars(
               EmptyWorld([i \in ItemUids |->
                   IF i \in TxItems THEN load[i] ELSE NewItem("event", "B", 2)]),
               [i \in ItemUids |-> IF i \in TxItems THEN 1 ELSE 0], 1), 1)
        /\ limits = [maxTx |-> MaxTx, maxOps |-> MaxOps, maxHistory |-> MAX_HISTORY,
                     items |-> TxItems, attrs |-> TRUE]

NextTx ==
    \/ begin_transaction
    \/ \E sc \in SubcalUids, i \in ItemUids : tx_insert_item(sc, i)
    \/ \E i \in ItemUids : tx_remove_item(i)
    \/ \E i \in ItemUids, dst \in SubcalUids : tx_move_item(i, dst)
    \/ \E i \in ItemUids, new \in Names : tx_set_item_attr(i, "name", new)
    \/ commit_transaction
    \/ tx_undo
    \/ tx_redo

SpecTx == InitTx /\ [][NextTx]_vars

----------------------------------------------------------------------------
(* Properties of the transaction log *)

\* Subcalendar.items is sorted ascending by sort_key()
IsSorted(list, its) ==
    \A k \in 1..(Len(list) - 1) : ~KeyLess(sort_key(its[list[k + 1]]), sort_key(its[list[k]]))
AllSorted == \A sc \in SubcalUids : IsSorted(subcalendars[sc], item)

\* C1: undo() once per commit, newest first, restores the entity model
\* exactly to its state before the undone commit (same items, same field
\* values, same list order in every subcalendar).
C1_UndoRestoresPriorModel ==
    (lastAct = "undo" /\ obs.clean) => World = obs.expect[1]

C3_RollbackRestoresModel ==
    (lastAct = "rollback" /\ obs.rolledOps >= 1) =>
        /\ World = obs.txStart[1]
        /\ undo_stack = obs.txStart[2]
        /\ redo_stack = obs.txStart[3]

\* C5: as long as only inserts, removes and moves (and their undo / redo)
\* have run, every subcalendar's items list is sorted by
\* (effective date, type rank, lower-cased name).
C5_SortedAfterStructuralOps == ~obs.attrSet => AllSorted

\* C4: the undo stack never holds more than MAX_HISTORY transactions; after
\* n non-empty commits with no undo in between it holds exactly the
\* min(n, MAX_HISTORY) most recent ones in commit order; every undo() takes
\* exactly the top entry off the stack, and undo() on an empty stack
\* changes nothing.
C4_HistoryBound ==
    /\ Len(undo_stack) <= limits.maxHistory
    /\ obs.noUndo => TxIds(undo_stack) = LastN(obs.commits, limits.maxHistory)
    /\ lastAct \in {"undo", "undo_raised"} => undo_stack = Front(obs.before[2])
    /\ lastAct = "undo" => redo_stack = Append(obs.before[3], Last(obs.before[2]))
    /\ lastAct = "undo_empty" =>
          /\ World = obs.before[1]
          /\ undo_stack = <<>>
          /\ redo_stack = obs.before[3]

\* MAX_HISTORY + 2 commits happened, all retained transactions were undone
\* and one more undo() was called
C4_Witness ==
    /\ lastAct = "undo_empty"
    /\ Len(obs.commits) = limits.maxHistory + 2
    /\ Len(redo_stack) = limits.maxHistory
    /\ TxIds(redo_stack)[1] = Last(obs.commits)

\* an insert, move, undo or redo put an item of higher uid in front of one of lower uid
C5_Witness ==
    /\ ~obs.attrSet
    /\ lastAct \in {"insert", "move", "undo", "redo"}
    /\ \E sc \in SubcalUids :
          /\ Len(subcalendars[sc]) = 2
          /\ KeyLess(sort_key(item[subcalendars[sc][1]]), sort_key(item[subcalendars[sc][2]]))
          /\ subcalendars[sc][1] > subcalendars[sc][2]

----------------------------------------------------------------------------
(* History specification: one item, MAX_HISTORY + 2 transactions *)

InitHist ==
    /\ InitEditor(load_subcalendars(
           EmptyWorld([i \in ItemUids |-> NewItem("task", "a", 1)]),
           [i \in ItemUids |-> IF i = 1 THEN 1 ELSE 0], 1), 1)
    /\ limits = [maxTx |-> MAX_HISTORY + 2, maxOps |-> MAX_HISTORY + 2,
                 maxHistory |-> MAX_HISTORY, items |-> {1}, attrs |-> FALSE]

NextHist ==
    \/ begin_transaction
    \/ \E sc \in SubcalUids : tx_insert_item(sc, 1)
    \/ tx_remove_item(1)
    \/ \E dst \in SubcalUids : tx_move_item(1, dst)
    \/ commit_transaction
    \/ tx_undo
    \/ tx_redo

SpecHist == InitHist /\ [][NextHist]_vars

----------------------------------------------------------------------------
(* Log specification with calls in the wrong state and saves: one item in   *)
(* subcalendar 1                                                            *)

InitLog ==
    /\ InitEditor(load_subcalendars(
           EmptyWorld([i \in ItemUids |->
               IF i = 1 THEN NewItem("task", "a", 1) ELSE NewItem("task", "B", 1)]),
           [i \in ItemUids |-> IF i = 1 THEN 1 ELSE 0], 1), 1)
    /\ limits = [maxTx |-> MaxTx + 1, maxOps |-> MaxTx, maxHistory |-> MAX_HISTORY,
                 items |-> {1}, attrs |-> TRUE]

NextLog ==
    \/ begin_transaction
    \/ begin_transaction_open
    \/ \E i \in ItemUids : tx_remove_item(i)
    \/ \E i \in ItemUids, new \in Names : tx_set_item_attr(i, "name", new)
    \/ \E i \in ItemUids, sc \in SubcalUids :
          \E h \in {"insert", "remove", "move"} : tx_helper_idle(h, i, sc, "a")
    \/ \E i \in ItemUids, new \in Names : tx_helper_idle("set", i, 1, new)
    \/ commit_transaction
    \/ tx_undo
    \/ tx_redo
    \/ ex_write(TRUE)

SpecLog == InitLog /\ [][NextLog]_vars

\* C11 as stated: begin while a transaction is open, and a tx_* helper while
\* none is open, raise an error and leave the model, the active transaction
\* and both stacks as they were.
C11_WrongStateRaises ==
    lastAct \in {"begin_open", "helper_idle"} =>
        /\ obs.raisedErr
        /\ <<World, undo_stack, redo_stack>> = obs.before
        /\ current_tx = obs.txBefore

\* C11, amended: begin while a transaction is open raises, a tx_* helper while
\* none is open raises unless it is an attribute-set whose new value equals
\* the old one, which returns without an error; in every one of these cases
\* the model, the active transaction and both stacks are left as they were.
C11_WrongStateRaisesUnlessSameValue ==
    lastAct \in {"begin_open", "helper_idle"} =>
        /\ obs.raisedErr = ~obs.sameValue
        /\ <<World, undo_stack, redo_stack>> = obs.before
        /\ current_tx = obs.txBefore

\* a begin refused while the open transaction holds an op and the undo stack
\* an entry
C11_Witness ==
    /\ lastAct = "begin_open"
    /\ obs.raisedErr
    /\ current_tx[1].ops # <<>>
    /\ undo_stack # <<>>

\* C12: committing a transaction that recorded no op, also one whose
\* attribute-sets all found new = old, leaves the undo stack, the redo stack
\* and the dirty flag as they were and the log idle.
C12_EmptyCommitDiscards ==
    lastAct \in {"commit_empty", "commit_unchanged"} =>
        /\ undo_stack = obs.before[2]
        /\ redo_stack = obs.before[3]
        /\ dirty = obs.before[4]
        /\ current_tx = <<>>

\* an empty commit after an attribute-set with new = old, with entries on both
\* stacks and unsaved changes
C12_Witness ==
    /\ lastAct = "commit_unchanged"
    /\ undo_stack # <<>>
    /\ redo_stack # <<>>
    /\ dirty

\* C13: a commit of a non-empty transaction puts it on top of the undo stack
\* and empties the redo stack, and a redo() that follows the commit changes
\* nothing.
C13_CommitClearsRedo ==
    [][/\ lastAct' = "commit" =>
            /\ undo_stack' # <<>>
            /\ Last(undo_stack') = current_tx[1]
            /\ redo_stack' = <<>>
       /\ (lastAct = "commit" /\ lastAct' \in {"redo", "redo_after_undo", "redo_raised", "redo_empty"}) =>
            UNCHANGED <<item, subcalendars, undo_stack, redo_stack>>]_vars

\* a redo() with the last committed transaction on top of the undo stack,
\* after an earlier committed transaction was undone and, no exception
\* raised and nothing evicted, dropped from the redo stack by that commit
C13_Witness ==
    /\ lastAct = "redo_empty"
    /\ obs.clean
    /\ undo_stack # <<>>
    /\ Last(undo_stack).id = Last(obs.commits)
    /\ Len(undo_stack) < limits.maxHistory
    /\ Len(obs.commits) > Len(undo_stack)
    /\ obs.before = <<World, undo_stack, redo_stack>>

\* C14 as stated: undo() on a non-empty undo stack removes the top
\* transaction, reverts its ops from the last recorded to the first and
\* pushes it on the redo stack; redo() on a non-empty redo stack removes the
\* top transaction, applies its ops from the first recorded to the last and
\* pushes it on the undo stack; on an empty stack each leaves the model and
\* both stacks as they were.
C14_UndoRedoMoveTop ==
    /\ lastAct \in {"undo", "undo_raised"} =>
          /\ undo_stack = Front(obs.before[2])
          /\ redo_stack = Append(obs.before[3], Last(obs.before[2]))
          /\ World = RevertFrom(Last(obs.before[2]).ops,
                                Len(Last(obs.before[2]).ops), obs.before[1]).w
    /\ lastAct \in {"redo", "redo_after_undo", "redo_raised"} =>
          /\ redo_stack = Front(obs.before[3])
          /\ undo_stack = Append(obs.before[2], Last(obs.before[3]))
          /\ World = ApplyFrom(Last(obs.before[3]).ops, 1, obs.before[1]).w
    /\ lastAct \in {"undo_empty", "redo_empty"} =>
          <<World, undo_stack, redo_stack>> = obs.before

\* the transaction on top of the undo stack at the last save, <<>> if the
\* stack was empty then or nothing was saved yet
SavedTop ==
    IF obs.atSave = NoSnap \/ obs.atSave[1] = <<>> THEN <<>>
    ELSE <<Last(obs.atSave[1])>>

\* C15: the dirty flag is false exactly when the undo stack is empty or its
\* top transaction is the one that was on top at the last save; so it is
\* false right after a save, true after a later commit, true after undoing
\* the saved transaction while the stack stays non-empty, and false again
\* after redoing back to the saved transaction.
C15_DirtyIffTopNotSaved ==
    /\ ~dirty <=> (undo_stack = <<>> \/ <<Last(undo_stack)>> = SavedTop)
    /\ lastAct = "ex_write" => ~dirty
    /\ lastAct = "commit" => dirty
    /\ (/\ lastAct = "undo"
        /\ <<Last(obs.before[2])>> = SavedTop
        /\ undo_stack # <<>>) => dirty
    /\ (/\ lastAct \in {"redo", "redo_after_undo"}
        /\ <<Last(undo_stack)>> = SavedTop) => ~dirty

\* the saved transaction redone after it was undone with an older
\* transaction left on the undo stack
C15_Witness ==
    /\ lastAct = "redo_after_undo"
    /\ Len(undo_stack) >= 2
    /\ <<Last(undo_stack)>> = SavedTop
    /\ ~dirty

----------------------------------------------------------------------------
(* Save specification: one item that is renamed, with saves that succeed or *)
(* fail and the quit commands                                               *)

InitSave ==
    /\ InitEditor(load_subcalendars(
           EmptyWorld([i \in ItemUids |-> NewItem("task", "a", 1)]),
           [i \in ItemUids |-> IF i = 1 THEN 1 ELSE 0], 1), 1)
    /\ limits = [maxTx |-> MaxTx, maxOps |-> MaxTx, maxHistory |-> MAX_HISTORY,
                 items |-> {1}, attrs |-> TRUE]

NextSave ==
    \/ begin_transaction
    \/ \E new \in Names : tx_set_item_attr(1, "name", new)
    \/ commit_transaction
    \/ tx_undo
    \/ tx_redo
    \/ \E saves \in BOOLEAN : write(saves)
    \/ \E saves \in BOOLEAN : write_quit(saves)
    \/ quit
    \/ quit_bang
    \/ \E saves \in BOOLEAN : ex_write(saves)
    \/ \E saves \in BOOLEAN : ex_write_quit(saves)
    \/ ex_quit
    \/ ex_quit_bang

SpecSave == InitSave /\ [][NextSave]_vars

FailedSaves == {"write_failed", "write_quit_failed", "ex_write_failed", "ex_write_quit_failed"}

\* C16 as stated: a save that fails with unsaved changes leaves the model,
\* both stacks and the saved marker as they were, the editor running and
\* dirty, and a :q after it (also the quit half of :wq) does not exit.
C16_FailedSaveKeepsDirty ==
    (obs.failedSave /\ Dirty(obs.atFail[4], obs.atFail[2])) =>
        /\ lastAct \in FailedSaves =>
              /\ <<World, undo_stack, redo_stack, saved_tx>> = obs.atFail
              /\ dirty
              /\ ~exited
              /\ ~halted
        /\ (lastAct \in {"quit", "ex_quit"} /\ undo_stack = obs.atFail[2]) => ~exited

----------------------------------------------------------------------------
(* Register store: src/vical/core/register.py *)

PayloadWithoutState(it) ==
    [kind |-> it.kind, name |-> "", completed |-> FALSE, date |-> 0,
     original_subcal_uid |-> 0]

\* calitem_to_register(item): the snapshot of an item (a task's date is not
\* stored; an event has no completed flag)
calitem_to_register(it) ==
    IF it.kind = "task"
    THEN [kind |-> "task", name |-> it.name, completed |-> it.completed,
          date |-> 0, original_subcal_uid |-> it.parent]
    ELSE [kind |-> "event", name |-> it.name, completed |-> FALSE,
          date |-> it.date, original_subcal_uid |-> it.parent]

\* [calitem_to_register(item) for item in items]
Payloads(targets, its) == [k \in 1..Len(targets) |-> calitem_to_register(its[targets[k]])]

\* str(i) for the numbered registers
RegDigit(i) ==
    CASE i = 0 -> "0" [] i = 1 -> "1" [] i = 2 -> "2" [] i = 3 -> "3" [] i = 4 -> "4"
      [] i = 5 -> "5" [] i = 6 -> "6" [] i = 7 -> "7" [] i = 8 -> "8" [] i = 9 -> "9"

NeverAppend(regname) ==
    IF regname = "A" THEN [name |-> "a", append |-> FALSE]
    ELSE [name |-> regname, append |-> FALSE]

\* Register._normalize_regname: (regname.lower(), regname.isupper())
normalize_regname(regname) ==
    IF regname = "A" THEN [name |-> "a", append |-> TRUE]
    ELSE [name |-> regname, append |-> FALSE]

\* for i in range(9, 1, -1): self._regs[str(i)] = self._regs[str(i - 1)].copy()
RECURSIVE RotateUp(_, _)
RotateUp(r, i) ==
    IF i > 9 THEN r
    ELSE RotateUp([r EXCEPT ![RegDigit(i)] = r[RegDigit(i - 1)]], i + 1)
RECURSIVE RotateDown(_, _)
RotateDown(r, i) ==
    IF i < 2 THEN r
    ELSE RotateDown([r EXCEPT ![RegDigit(i)] = r[RegDigit(i - 1)]], i - 1)

RotateAscending(r) == RotateUp(r, 2)
Rotate(r) == RotateDown(r, 9)

\* Register.write(regname, items, rotate)
WriteUnnamedOnly(r, regname, payloads, rotate) ==
    IF regname = "_" THEN r ELSE [r EXCEPT !["\""] = payloads]
Register_write(r, regname, payloads, rotate) ==
    IF regname = "_" THEN r
    ELSE LET norm == normalize_regname(regname)
             r1 == [r EXCEPT !["\""] = payloads]
             r2 == IF ~rotate THEN [r1 EXCEPT !["0"] = payloads] ELSE r1
             r3 == IF rotate THEN [Rotate(r2) EXCEPT !["1"] = payloads] ELSE r2
         IN IF norm.name \in RegNames
            THEN IF norm.append
                 THEN [r3 EXCEPT ![norm.name] = @ \o payloads]
                 ELSE [r3 EXCEPT ![norm.name] = payloads]
            ELSE r3

\* Register.get(regname)
Register_get(r, regname) ==
    LET norm == normalize_regname(regname)
    IN IF norm.name \in RegNames THEN r[norm.name] ELSE <<>>

\* Register.clear(regname)
Register_clear(r, regname) == [r EXCEPT ![normalize_regname(regname).name] = <<>>]

----------------------------------------------------------------------------
(* Operator executor: src/vical/commands/operators.py *)

\* for item in opargs.target_items: tx_remove_item(self.editor, item)
\* r = [ok, w, ops]: ok = FALSE when an assert of tx_remove_item failed
RECURSIVE RemoveTargets(_, _, _)
RemoveFirstOnly(targets, k, r) ==
    IF targets = <<>> THEN r
    ELSE [ok |-> TRUE, w |-> Detach(r.w, r.w.item[targets[1]].parent, targets[1]),
          ops |-> <<OpRemoveItem(r.w.item[targets[1]].parent, targets[1])>>]
RemoveTargets(targets, k, r) ==
    IF k > Len(targets) \/ ~r.ok THEN r
    ELSE LET i == targets[k]
             sc == r.w.item[i].parent
         IN IF sc = 0
            THEN [r EXCEPT !.ok = FALSE]
            ELSE RemoveTargets(targets, k + 1,
                     [ok |-> TRUE, w |-> Detach(r.w, sc, i),
                      ops |-> Append(r.ops, OpRemoveItem(sc, i))])

\* Operators.op_delete(opargs): the register write, then the transaction block
op_delete_effect(targets, regname) ==
    LET payloads == Payloads(targets, item)
        r == RemoveTargets(targets, 1, [ok |-> TRUE, w |-> World, ops |-> <<>>])
        tx == [id |-> next_id, ops |-> r.ops]
    IN /\ regs' = IF targets # <<>> THEN Register_write(regs, regname, payloads, TRUE)
                  ELSE regs
       /\ next_id' = next_id + 1
       /\ item' = r.w.item
       /\ subcalendars' = r.w.subcalendars
       /\ current_tx' = <<>>
       /\ IF r.ok /\ r.ops # <<>>
          THEN /\ undo_stack' = PushHistory(undo_stack, tx)
               /\ redo_stack' = <<>>
          ELSE UNCHANGED <<undo_stack, redo_stack>>
       /\ halted' = ~r.ok

op_delete(targets, regname) ==
    /\ Idle
    /\ obs.nOps < limits.maxOps
    /\ op_delete_effect(targets, regname)
    /\ obs' = [obs EXCEPT !.deletes = IF targets # <<>>
                                      THEN Append(@, Payloads(targets, item)) ELSE @,
                          !.delRegnames = IF targets # <<>> THEN @ \cup {regname} ELSE @,
                          !.before = <<World, undo_stack, redo_stack>>,
                          !.pre_undo = IF undo_stack' # undo_stack
                                       THEN LastN(Append(@, World), Len(undo_stack'))
                                       ELSE @,
                          !.dirtyBefore = dirty,
                          !.regsBefore = regs, !.nOps = @ + 1, !.idBefore = next_id, !.text = "",
                          !.targets = targets, !.regname = regname]
    /\ lastAct' = "op_delete"
    /\ UNCHANGED <<selected_date, selected_item_index, cmdargs, limits, today, saved_tx, exited, subcal, input_buffer, editor_mode, prompt>>

\* Operators.op_yank(opargs)
op_yank(targets, regname) ==
    /\ Idle
    /\ obs.nOps < limits.maxOps
    /\ regs' = IF targets # <<>>
               THEN Register_write(regs, regname, Payloads(targets, item), FALSE)
               ELSE regs
    /\ obs' = [obs EXCEPT !.before = <<World, undo_stack, redo_stack>>,
                          !.dirtyBefore = dirty,
                          !.regsBefore = regs, !.nOps = @ + 1, !.idBefore = next_id, !.text = "",
                          !.yankNumbered = @ \/ (targets # <<>> /\ regname \in NumberedRegs),
                          !.targets = targets, !.regname = regname]
    /\ lastAct' = "op_yank"
    /\ UNCHANGED <<item, subcalendars, current_tx, undo_stack, redo_stack, next_id, halted,
                   selected_date, selected_item_index, cmdargs, limits, today, saved_tx, exited, subcal, input_buffer, editor_mode, prompt>>

\* Operators.op_complete(opargs): the comprehension's filter calls the
\* undefined name `ifinstance`, so it raises NameError on the first target
op_complete(targets) ==
    /\ Idle
    /\ obs.nOps < limits.maxOps
    /\ halted' = (targets # <<>>)
    /\ obs' = [obs EXCEPT !.before = <<World, undo_stack, redo_stack>>,
                          !.regsBefore = regs, !.nOps = @ + 1, !.idBefore = next_id, !.text = "",
                          !.targets = targets, !.regname = "\""]
    /\ lastAct' = "op_complete"
    /\ UNCHANGED <<item, subcalendars, current_tx, undo_stack, redo_stack, next_id, regs,
                   selected_date, selected_item_index, cmdargs, limits, today, saved_tx, exited, subcal, input_buffer, editor_mode, prompt>>

\* for item in opargs.target_items: tx_set_item_attr(self.editor, item, "name", text),
\* called with no transaction open
RECURSIVE ChangeTargets(_, _, _, _)
ChangeTargets(targets, k, text, w) ==
    IF k > Len(targets) THEN Ok(w)
    ELSE LET r == helper_while_idle("set", w, targets[k], 0, text)
         IN IF r.raised THEN Raised(r.w) ELSE ChangeTargets(targets, k + 1, text, r.w)

\* Operators.op_change(opargs)
op_change(targets, text) ==
    /\ Idle
    /\ obs.nOps < limits.maxOps
    /\ LET r == IF targets = <<>> \/ text = "" THEN Ok(World)
                ELSE ChangeTargets(targets, 1, text, World)
       IN /\ item' = r.w.item
          /\ subcalendars' = r.w.subcalendars
          /\ halted' = ~r.ok
    /\ obs' = [obs EXCEPT !.before = <<World, undo_stack, redo_stack>>,
                          !.regsBefore = regs, !.nOps = @ + 1, !.idBefore = next_id,
                          !.targets = targets, !.regname = "\"", !.text = text]
    /\ lastAct' = "op_change"
    /\ UNCHANGED <<current_tx, undo_stack, redo_stack, next_id, regs,
                   selected_date, selected_item_index, cmdargs, limits, today, saved_tx, exited, subcal, input_buffer, editor_mode, prompt>>

\* Operators.do_operator(opargs): dispatch on opargs.op_key.lower()
do_operator(op_key, targets, regname, text) ==
    CASE op_key = "d" -> op_delete(targets, regname)
      [] op_key = "y" -> op_yank(targets, regname)
      [] op_key = "c" -> op_change(targets, text)
      [] op_key = " " -> op_complete(targets)

\* target lists: one attached item, or all attached items in list order, or none
Attached == {i \in ItemUids : item[i].parent # 0}
TargetLists ==
    {<<>>} \cup {<<i>> : i \in Attached} \cup {subcalendars[sc] : sc \in SubcalUids}

\* the texts a change operator is called with
Texts == {"", "a", "B"}

\* the register names an operator is called with
RegInputs == {"\"", "a", "A", "_", "0", "1", "2"}

\* Operator specification: three tasks in subcalendar 1, two of them completed
InitOps ==
    /\ InitEditor(load_subcalendars(
           EmptyWorld([i \in ItemUids |->
               CASE i = 1 -> NewItem("task", "a", 1)
                 [] i = 2 -> [NewItem("task", "B", 1) EXCEPT !.completed = TRUE]
                 [] OTHER -> [NewItem("task", "a", 1) EXCEPT !.completed = TRUE]]),
           [i \in ItemUids |-> 1], 1), 1)
    /\ limits = [maxTx |-> MaxOperators, maxOps |-> MaxOperators,
                 maxHistory |-> MAX_HISTORY, items |-> ItemUids, attrs |-> TRUE]

NextOps ==
    \/ \E targets \in TargetLists, regname \in RegInputs : do_operator("d", targets, regname, "")
    \/ \E targets \in TargetLists, regname \in RegInputs : do_operator("y", targets, regname, "")
    \/ \E targets \in TargetLists : do_operator(" ", targets, "\"", "")

SpecOps == InitOps /\ [][NextOps]_vars

----------------------------------------------------------------------------
(* Delete specification: the tasks of the operator specification, deletes    *)
(* into the unnamed register, undo and redo                                  *)

NextDelete ==
    \/ \E targets \in TargetLists : do_operator("d", targets, "\"", "")
    \/ tx_undo
    \/ tx_redo

SpecDelete == InitOps /\ [][NextDelete]_vars

\* C17: a delete on k >= 1 targets detaches all k items, and adds to the undo
\* stack one transaction that holds one RemoveItem op per target, in target
\* order; an undo() of that transaction re-inserts all k items.
C17_DeleteIsOneTransaction ==
    /\ (lastAct = "op_delete" /\ obs.targets # <<>>) =>
          /\ \A k \in 1..Len(obs.targets) :
                /\ item[obs.targets[k]].parent = 0
                /\ \A sc \in SubcalUids : ~InList(subcalendars[sc], obs.targets[k])
          /\ undo_stack # <<>>
          /\ undo_stack = LastN(Append(obs.before[2], Last(undo_stack)), limits.maxHistory)
          /\ Last(undo_stack).id \notin {obs.before[2][k].id : k \in 1..Len(obs.before[2])}
          /\ Last(undo_stack).ops =
                [k \in 1..Len(obs.targets) |->
                    OpRemoveItem(obs.before[1].item[obs.targets[k]].parent, obs.targets[k])]
    /\ lastAct = "undo" =>
          \A k \in 1..Len(Last(obs.before[2]).ops) :
             LET op == Last(obs.before[2]).ops[k]
             IN /\ item[op.item].parent = op.sc
                /\ InList(subcalendars[op.sc], op.item)

\* the undo of a delete of three items
C17_Witness ==
    /\ lastAct = "undo"
    /\ Len(Last(obs.before[2]).ops) = 3
    /\ \A i \in ItemUids : item[i].parent = 1

----------------------------------------------------------------------------
(* Properties of the operators and the registers *)

Min(a, b) == IF a < b THEN a ELSE b

\* the numbered registers hold the latest deletes, newest in register 1
NumberedHoldDeletes ==
    LET n == Len(obs.deletes)
    IN \A k \in 1..Min(n, 9) : regs[RegDigit(k)] = obs.deletes[n - k + 1]

\* the last operator was a delete on a non-empty target set
AfterDelete == lastAct = "op_delete" /\ obs.targets # <<>>

C7_ToggleCompleteAllOrNothing ==
    LET its == obs.before[1].item
        tasks == {k \in 1..Len(obs.targets) : its[obs.targets[k]].kind = "task"}
        toggle == \E k \in tasks : ~its[obs.targets[k]].completed
    IN (lastAct = "op_complete" /\ tasks # {}) =>
          /\ \A k \in tasks : item[obs.targets[k]].completed = toggle
          /\ \A k \in 1..Len(obs.targets) :
                k \notin tasks => item[obs.targets[k]] = its[obs.targets[k]]

\* the last operator was a yank on a non-empty target set
AfterYank == lastAct = "op_yank" /\ obs.targets # <<>>

\* what a yank leaves alone: the registers 1-9, the model, both stacks and
\* the dirty flag
YankFrame ==
    /\ \A n \in NumberedRegs : regs[n] = obs.regsBefore[n]
    /\ <<World, undo_stack, redo_stack>> = obs.before
    /\ dirty = obs.dirtyBefore

----------------------------------------------------------------------------
(* Change specification: the tasks of the operator specification and the    *)
(* four operators, with the unnamed register as the target                  *)

NextChange ==
    \/ \E targets \in TargetLists : do_operator("d", targets, "\"", "")
    \/ \E targets \in TargetLists : do_operator("y", targets, "\"", "")
    \/ \E targets \in TargetLists, text \in Texts : do_operator("c", targets, "\"", text)
    \/ \E targets \in TargetLists : do_operator(" ", targets, "\"", "")

SpecChange == InitOps /\ [][NextChange]_vars

\* the last call of do_operator
AfterOperator == lastAct \in {"op_delete", "op_yank", "op_change", "op_complete"}

\* the last step was a Register.write of the payloads of a non-empty target list
AfterWrite == lastAct \in {"op_delete", "op_yank"} /\ obs.targets # <<>>

\* the payloads written
Written == Payloads(obs.targets, obs.before[1].item)

\* C29: Register.write with the uppercase name A appends the new payloads after
\* what register a held, and with the lowercase name a replaces what it held; in
\* both cases the unnamed register holds the new payloads only.
C29_UppercaseAppends ==
    AfterWrite =>
        /\ obs.regname = "A" =>
               regs["a"] = obs.regsBefore["a"] \o Written /\ regs["\""] = Written
        /\ obs.regname = "a" =>
               regs["a"] = Written /\ regs["\""] = Written

\* a write to A when a held something: a holds the old payloads and then the new
C29_Witness ==
    /\ AfterWrite
    /\ obs.regname = "A"
    /\ obs.regsBefore["a"] # <<>>
    /\ regs["a"] = obs.regsBefore["a"] \o Written
    /\ regs["\""] = Written
    /\ regs["a"] # regs["\""]


\* C19 as stated: do_operator with an empty target set opens no transaction
\* (no Transaction object is made, the log stays idle) and leaves the model,
\* every register and both stacks as they were, whatever the operator.
C19_EmptyTargetsNoOp ==
    (AfterOperator /\ obs.targets = <<>>) =>
        /\ next_id = obs.idBefore
        /\ current_tx = <<>>
        /\ <<World, undo_stack, redo_stack>> = obs.before
        /\ regs = obs.regsBefore
        /\ ~halted

\* C20 as stated: a change with non-empty text on a non-empty target set
\* gives every target that name and adds one transaction to the undo stack,
\* whose revert restores the names; a change with empty text changes nothing;
\* a toggle-complete on targets with a task adds one transaction as well.
C20_ChangeIsOneTransaction ==
    /\ (lastAct = "op_change" /\ obs.targets # <<>> /\ obs.text # "") =>
          /\ \A k \in 1..Len(obs.targets) : item[obs.targets[k]].name = obs.text
          /\ ~halted
          /\ (\E k \in 1..Len(obs.targets) :
                 obs.before[1].item[obs.targets[k]].name # obs.text) =>
                /\ undo_stack # <<>>
                /\ undo_stack = LastN(Append(obs.before[2], Last(undo_stack)), limits.maxHistory)
                /\ Last(undo_stack).id = obs.idBefore
                /\ Transaction_revert(Last(undo_stack), World).w = obs.before[1]
    /\ (lastAct = "op_change" /\ obs.text = "") =>
          /\ <<World, undo_stack, redo_stack>> = obs.before
          /\ regs = obs.regsBefore
    /\ (lastAct = "op_complete"
        /\ \E k \in 1..Len(obs.targets) : item[obs.targets[k]].kind = "task") =>
          /\ ~halted
          /\ undo_stack # <<>>
          /\ undo_stack = LastN(Append(obs.before[2], Last(undo_stack)), limits.maxHistory)
          /\ Last(undo_stack).id = obs.idBefore

----------------------------------------------------------------------------
(* Calendar dates: datetime.date as the proleptic Gregorian ordinal of the  *)
(* day, the way the date arithmetic of the commands uses it                 *)

is_leap(year) == year % 4 = 0 /\ (year % 100 # 0 \/ year % 400 = 0)

days_in_month(year, month) ==
    CASE month = 2 -> IF is_leap(year) THEN 29 ELSE 28
      [] month \in {4, 6, 9, 11} -> 30
      [] OTHER -> 31

RECURSIVE days_before_month(_, _)
days_before_month(year, month) ==
    IF month = 1 THEN 0
    ELSE days_before_month(year, month - 1) + days_in_month(year, month - 1)

days_before_year(year) ==
    LET y == year - 1 IN y * 365 + (y \div 4) - (y \div 100) + (y \div 400)

\* date(year, month, day).toordinal()
ymd2ord(year, month, day) ==
    days_before_year(year) + days_before_month(year, month) + day

\* date(year, month, day): <<ordinal>>, or <<>> where the constructor raises ValueError
date(year, month, day) ==
    IF /\ 1 <= year /\ year <= 9999
       /\ 1 <= month /\ month <= 12
       /\ 1 <= day /\ day <= days_in_month(year, month)
    THEN <<ymd2ord(year, month, day)>>
    ELSE <<>>

\* d.year, d.month, d.day of the date with ordinal n
ord2ymd(n) ==
    LET n0 == n - 1
        n400 == n0 \div 146097
        r400 == n0 % 146097
        n100 == r400 \div 36524
        r100 == r400 % 36524
        n4 == r100 \div 1461
        r4 == r100 % 1461
        n1 == r4 \div 365
        r1 == r4 % 365
        year == n400 * 400 + 1 + n100 * 100 + n4 * 4 + n1
    IN IF n1 = 4 \/ n100 = 4
       THEN [year |-> year - 1, month |-> 12, day |-> 31]
       ELSE LET est == (r1 + 50) \div 32
                month == IF days_before_month(year, est) > r1 THEN est - 1 ELSE est
            IN [year |-> year, month |-> month,
                day |-> r1 - days_before_month(year, month) + 1]

----------------------------------------------------------------------------
(* Motions: src/vical/commands/motions.py *)

\* Motions.date_move(delta_days), with editor.selected_date = sd
date_move(delta_days, sd) == [start |-> sd, end |-> sd + delta_days]

\* Motions.date_set(target_date)
date_set(target_date, sd) == [start |-> sd, end |-> target_date]

NoScale(motion, n) == motion

\* DateMotion.scale(n), reached through Motion.__mul__
scale(motion, n) ==
    [start |-> motion.start, end |-> motion.start + (motion.end - motion.start) * n]

----------------------------------------------------------------------------
(* Command arguments and shared helpers *)

\* settings.date_format
date_format == "mdy"

Digits == {"0", "1", "2", "3", "4", "5", "6", "7", "8", "9"}

\* ord(ch) - ord('0')
DigitValue(ch) ==
    CASE ch = "0" -> 0 [] ch = "1" -> 1 [] ch = "2" -> 2 [] ch = "3" -> 3 [] ch = "4" -> 4
      [] ch = "5" -> 5 [] ch = "6" -> 6 [] ch = "7" -> 7 [] ch = "8" -> 8 [] ch = "9" -> 9

\* int(s) of a non-empty string of digits
RECURSIVE int(_)
int(str) ==
    IF str = <<>> THEN 0 ELSE int(Front(str)) * 10 + DigitValue(Last(str))

\* CmdArgs.clear()
clear(c) ==
    [c EXCEPT !.key = "", !.next_key = "", !.op_pending_key = "",
              !.motion_pending_cmd = FALSE, !.motion = <<>>, !.count_buffer = <<>>,
              !.motion_count = 1, !.op_count = 1]

\* CmdArgs.clear_keys()
clear_keys(c) == [c EXCEPT !.key = "", !.next_key = ""]

\* UtilCmds.parse_date_string(date_str): <<date>>, or <<>> for None
parse_date_string(date_str, current) ==
    LET fmt == date_format
        cur == ord2ymd(current)
        len == Len(date_str)
        first == int(SubSeq(date_str, 1, 2))
        second == int(SubSeq(date_str, 3, 4))
    IN CASE len = 8 ->
              IF fmt = "mdy" THEN date(int(SubSeq(date_str, 5, 8)), first, second)
              ELSE date(int(SubSeq(date_str, 5, 8)), second, first)
         [] len = 6 -> date(int(SubSeq(date_str, 3, 6)), first, 1)
         [] len = 4 ->
              IF fmt = "mdy" THEN date(cur.year, first, second)
              ELSE date(cur.year, second, first)
         [] len \in {1, 2} -> date(cur.year, cur.month, int(date_str))
         [] OTHER -> <<>>

----------------------------------------------------------------------------
(* Normal-mode commands: src/vical/commands/normal.py.  A command works on  *)
(* e = [c, sd, idx, raised, op]: the CmdArgs, editor.selected_date,         *)
(* editor.selected_item_index, whether it raised, and the OpArgs it hands   *)
(* to Operators.do_operator (<<>> if none).                                 *)

\* Editor.get_items_for_selected_day: the items occurring on the selected date,
\* subcalendar by subcalendar
RECURSIVE ItemsOfDay(_, _, _)
ItemsOfDay(w, sd, sc) ==
    IF sc \notin SubcalUids THEN <<>>
    ELSE SelectSeq(w.subcalendars[sc], LAMBDA i : w.item[i].date = sd)
         \o ItemsOfDay(w, sd, sc + 1)

\* Editor.selected_item: <<uid>>, or <<>> for None
selected_item(w, sd, idx) ==
    LET items == ItemsOfDay(w, sd, 1)
    IN IF items = <<>> THEN <<>> ELSE <<items[(idx % Len(items)) + 1]>>

\* Editor.set_selected_date(new_date)
set_selected_date(e, new_date) == [e EXCEPT !.sd = new_date, !.idx = 0]

\* NormalCmds._execute_operator_motion: `total_count` is not defined, and the
\* Editor has no get_items_in_motion, so either way it raises
execute_operator_motion(e) == [e EXCEPT !.raised = TRUE]

\* NormalCmds._handle_motion
handle_motion(e) ==
    LET c1 == IF e.c.count_buffer # <<>>
              THEN [e.c EXCEPT !.motion_count = int(e.c.count_buffer), !.count_buffer = <<>>]
              ELSE e.c
        motion == scale(c1.motion, c1.motion_count)
        e1 == set_selected_date([e EXCEPT !.c = c1], motion.end)
    IN IF c1.motion_pending_cmd
       THEN [e1 EXCEPT !.raised = TRUE]     \* _execute_task_motion; no key of the model sets it
       ELSE IF c1.op_pending_key # ""
       THEN execute_operator_motion(e1)
       ELSE [e1 EXCEPT !.c.motion = <<>>]

\* nv_date_left / nv_date_right / nv_date_up / nv_date_down
nv_date(e, delta) == handle_motion([e EXCEPT !.c.motion = date_move(delta, e.sd)])

\* NormalCmds.nv_month_start
nv_month_start(e) ==
    LET d == ord2ymd(e.sd)
        target_date == ymd2ord(d.year, d.month, 1)
    IN handle_motion([e EXCEPT !.c.motion = date_set(target_date, e.sd)])

\* NormalCmds.nv_goto, with date.today() = t
nv_goto(e, t) ==
    LET date_str == e.c.count_buffer
        e1 == [e EXCEPT !.c.count_buffer = <<>>]
        target_date == IF date_str = <<"0">> THEN <<t>>
                       ELSE parse_date_string(date_str, e.sd)
    IN IF date_str = <<>> THEN nv_month_start(e1)
       ELSE IF target_date = <<>> THEN e1
       ELSE handle_motion([e1 EXCEPT !.c.last_date_before_goto = e.sd,
                                     !.c.motion = date_set(target_date[1], e.sd)])

\* date.weekday(): Monday is 0; ordinal 1 is a Monday
weekday(d) == (d + 6) % 7

\* settings.week_start
week_start == 6

\* NormalCmds.nv_week_start
nv_week_start(e) ==
    LET delta == (weekday(e.sd) - week_start) % 7
    IN handle_motion([e EXCEPT !.c.motion = date_set(e.sd - delta, e.sd)])

\* Editor.get_items_for_selected_date(): the items shown for the selected date
get_items_for_selected_date(w, sd) == ItemsOfDay(w, sd, 1)

\* Motions.item_move(idx_delta), with editor.selected_item_index = idx
item_move(idx_delta, w, sd, idx) ==
    LET items == get_items_for_selected_date(w, sd)
        max_idx == Len(items) - 1
        new_idx == IF idx + idx_delta > max_idx
                   THEN (IF max_idx > 0 THEN max_idx ELSE 0)
                   ELSE (IF idx + idx_delta > 0 THEN idx + idx_delta ELSE 0)
    IN IF items = <<>> THEN [start |-> 0, end |-> 0] ELSE [start |-> idx, end |-> new_idx]

\* nv_item_up / nv_item_down: _handle_motion on an ItemMotion, whose scale is
\* that of a DateMotion and whose apply sets editor.selected_item_index
nv_item(e, w, delta) ==
    LET c0 == [e.c EXCEPT !.motion = item_move(delta, w, e.sd, e.idx)]
        c1 == IF c0.count_buffer # <<>>
              THEN [c0 EXCEPT !.motion_count = int(c0.count_buffer), !.count_buffer = <<>>]
              ELSE c0
        motion == scale(c1.motion, c1.motion_count)
        e1 == [e EXCEPT !.c = c1, !.idx = motion.end]
    IN IF c1.motion_pending_cmd
       THEN [e1 EXCEPT !.raised = TRUE]
       ELSE IF c1.op_pending_key # ""
       THEN execute_operator_motion(e1)
       ELSE [e1 EXCEPT !.c.motion = <<>>]

\* NormalCmds.nv_g_cmd; e.called lists the commands it calls
nv_g_cmd(e, w, t) ==
    CASE e.c.next_key = "g" -> [nv_goto(e, t) EXCEPT !.called = <<"nv_goto">>]
      [] e.c.next_key = "0" -> [nv_week_start(e) EXCEPT !.called = <<"nv_week_start">>]
      [] e.c.next_key = "k" -> [nv_item(e, w, -1) EXCEPT !.called = <<"nv_item_up">>]
      [] e.c.next_key = "j" -> [nv_item(e, w, 1) EXCEPT !.called = <<"nv_item_down">>]
      [] OTHER -> e

\* NormalCmds._execute_single_unit_operator
execute_single_unit_operator(e, w) ==
    LET it == selected_item(w, e.sd, e.idx)
    IN IF it = <<>> THEN e
       ELSE [e EXCEPT !.op = <<[op_key |-> e.c.key, targets |-> it, regname |-> e.c.regname]>>,
                      !.c = clear(e.c)]

\* key.isupper()
isupper(key) == key \in {"C", "G", "T"}

nv_operator_keeps_count(e, w) ==
    IF e.c.op_pending_key = e.c.key \/ isupper(e.c.key) \/ e.c.key = " "
    THEN execute_single_unit_operator(e, w)
    ELSE [e EXCEPT !.c.op_pending_key = e.c.key]

\* NormalCmds.nv_operator
nv_operator(e, w) ==
    IF e.c.op_pending_key = e.c.key \/ isupper(e.c.key) \/ e.c.key = " "
    THEN execute_single_unit_operator(e, w)
    ELSE [e EXCEPT !.c.op_pending_key = e.c.key,
                   !.c.op_count = IF e.c.count_buffer # <<>> THEN int(e.c.count_buffer) ELSE 1,
                   !.c.count_buffer = <<>>]

\* editor.status.request_redraw(): asks for a repaint, changes no editor state
request_redraw(e) == e

\* UtilCmds.change_mode(cmdargs, mode); the visual anchors it sets are not
\* part of the model
change_mode(e, mode) ==
    IF e.c.mode = mode THEN e ELSE request_redraw([e EXCEPT !.c.mode = mode])

\* NormalCmds.nv_colon
nv_colon(e) == change_mode(e, "EX_CMD")

----------------------------------------------------------------------------
(* Key parser: src/vical/input/keyparser.py, src/vical/input/defaults.py *)

\* the keys of init_default_keymap that chr(key) can equal
nvmap == {" ", "$", "-", ":", "C", "G", "T", "^", "c", "d", "g", "h", "j", "k", "l",
          "t", "y", "z"}

\* flags & NEXT_KEY
NEXT_KEY(key) == key = "g"

\* cmd(self.cmdargs) for the keys the model types
Dispatch(e, w, t) ==
    CASE e.c.key = "h" -> nv_date(e, -1)
      [] e.c.key = "l" -> nv_date(e, 1)
      [] e.c.key \in {"k", "-"} -> nv_date(e, -7)
      [] e.c.key = "j" -> nv_date(e, 7)
      [] e.c.key = "G" -> nv_goto(e, t)
      [] e.c.key = "g" -> nv_g_cmd(e, w, t)
      [] e.c.key \in {"d", "y", "c", "C", " "} -> nv_operator(e, w)
      [] e.c.key = ":" -> nv_colon(e)

\* Operators.do_operator(opargs) as called by a normal-mode command, where
\* opargs.text is "" and the target list is not empty
operator_effect(opargs) ==
    CASE lower(opargs.op_key) = "d" -> op_delete_effect(opargs.targets, opargs.regname)
      [] lower(opargs.op_key) = "y" ->
            /\ regs' = Register_write(regs, opargs.regname,
                                       Payloads(opargs.targets, item), FALSE)
            /\ UNCHANGED <<item, subcalendars, current_tx, undo_stack, redo_stack,
                           next_id, halted>>
      [] lower(opargs.op_key) = "c" ->
            UNCHANGED <<item, subcalendars, current_tx, undo_stack, redo_stack,
                        next_id, regs, halted>>
      [] lower(opargs.op_key) = " " ->
            /\ halted' = TRUE
            /\ UNCHANGED <<item, subcalendars, current_tx, undo_stack, redo_stack,
                           next_id, regs>>

\* the state a key sequence starts from
KeySnap == [sd |-> selected_date, idx |-> selected_item_index, c |-> cmdargs, w |-> World, regs |-> regs,
            undo |-> undo_stack, redo |-> redo_stack]

\* the key sequences typed
Units ==
    { <<"l">>, <<"3", "j">>, <<"0", "l">>, <<"1", "2", "h">>, <<"2", "k">>, <<"3", "-">>,
      <<"g", "g">>, <<"G">>, <<"0", "g", "g">>,
      <<"0", "7", "0", "4", "2", "0", "2", "6", "g", "g">>,
      <<"0", "7", "2", "0", "2", "6", "G">>,
      <<"0", "7", "0", "4", "g", "g">>,
      <<"0", "2", "2", "9", "g", "g">>,
      <<"3", "1", "G">>, <<"5", "g", "g">>, <<"0", "0", "G">>,
      <<"1", "2", "3", "g", "g">>,
      <<"1", "3", "0", "1", "2", "0", "2", "6", "G">>,
      <<"g", "3", "l">>, <<"g", "x">>, <<"x">>,
      <<"d", "d">>, <<"d", "l">>, <<"d", "3", "j">> }

\* the next key continues a key sequence of Units
UnitAllows(key) ==
    LET typed == Append(obs.typed, key)
    IN /\ \E u \in limits.units : Len(typed) <= Len(u) /\ SubSeq(u, 1, Len(typed)) = typed
       /\ obs.typed = <<>> => obs.units < limits.maxOps

\* KeyParser.feed(key) in NORMAL mode (_feed_normal_mode)
feed(key) ==
    /\ ~halted
    /\ Idle
    /\ cmdargs.mode = "NORMAL"
    /\ LET typed == Append(obs.typed, key)
           c1 == IF cmdargs.key = "" THEN [cmdargs EXCEPT !.key = key]
                 ELSE IF cmdargs.next_key = "" THEN [cmdargs EXCEPT !.next_key = key]
                 ELSE clear(cmdargs)
           e == Dispatch([c |-> c1, sd |-> selected_date, idx |-> selected_item_index,
                          raised |-> FALSE, op |-> <<>>, called |-> <<>>], World, today)
       IN /\ IF key \in Digits /\ cmdargs.motion = <<>>
             THEN /\ cmdargs' = [cmdargs EXCEPT !.count_buffer = Append(@, key)]
                  /\ UNCHANGED <<item, subcalendars, current_tx, undo_stack, redo_stack,
                                 next_id, regs, halted, selected_date, selected_item_index>>
             ELSE IF c1.key \notin nvmap
             THEN \* cmd, flags = None: TypeError
                  /\ cmdargs' = c1
                  /\ halted' = TRUE
                  /\ UNCHANGED <<item, subcalendars, current_tx, undo_stack, redo_stack,
                                 next_id, regs, selected_date, selected_item_index>>
             ELSE IF NEXT_KEY(c1.key) /\ c1.next_key = ""
             THEN /\ cmdargs' = c1
                  /\ UNCHANGED <<item, subcalendars, current_tx, undo_stack, redo_stack,
                                 next_id, regs, halted, selected_date, selected_item_index>>
             ELSE /\ cmdargs' = IF e.raised THEN e.c ELSE clear_keys(e.c)
                  /\ selected_date' = e.sd
                  /\ selected_item_index' = e.idx
                  /\ IF e.op # <<>>
                     THEN operator_effect(e.op[1])
                     ELSE /\ halted' = e.raised
                          /\ UNCHANGED <<item, subcalendars, current_tx, undo_stack,
                                         redo_stack, next_id, regs>>
          /\ obs' = [obs EXCEPT
                       !.notice = <<>>,
                       !.called = IF (key \in Digits /\ cmdargs.motion = <<>>)
                                     \/ c1.key \notin nvmap
                                     \/ (NEXT_KEY(c1.key) /\ c1.next_key = "")
                                  THEN <<>> ELSE e.called,
                       !.typed = IF typed \in limits.units THEN <<>> ELSE typed,
                       !.done = IF typed \in limits.units THEN typed ELSE <<>>,
                       !.unitStart = IF obs.typed = <<>> THEN <<KeySnap>> ELSE @,
                       !.units = IF obs.typed = <<>> THEN @ + 1 ELSE @]
          /\ lastAct' = "feed"
    /\ UNCHANGED <<limits, today, saved_tx, exited, subcal, input_buffer, editor_mode, prompt>>

KeyInputs == UNION {{u[k] : k \in 1..Len(u)} : u \in Units}

\* date.today() at start-up
TodayInputs == {ymd2ord(2026, 11, 4), ymd2ord(2024, 1, 31)}

\* Key specification: one task on the start-up date in subcalendar 1
InitKeys ==
    \E t \in TodayInputs :
        /\ InitEditor(load_subcalendars(
               EmptyWorld([i \in ItemUids |-> NewItem("task", "a", t)]),
               [i \in ItemUids |-> IF i = 1 THEN 1 ELSE 0], 1), t)
        /\ limits = [maxTx |-> MaxUnits, maxOps |-> MaxUnits, maxHistory |-> MAX_HISTORY,
                     items |-> {1}, attrs |-> FALSE, units |-> Units]

NextKeys == \E key \in KeyInputs : UnitAllows(key) /\ feed(key)

SpecKeys == InitKeys /\ [][NextKeys]_vars


----------------------------------------------------------------------------
(* Properties of the key grammar *)

\* a key sequence starts a new grammar unit: NORMAL mode, nothing pending, no count typed
Fresh(c) ==
    /\ c.mode = "NORMAL" /\ c.op_pending_key = "" /\ ~c.motion_pending_cmd
    /\ c.key = "" /\ c.count_buffer = <<>>

AllDigits(str) == \A k \in 1..Len(str) : str[k] \in Digits

\* the keys bound to date motions and their deltas (init_default_keymap)
DateMotionKeys == {"h", "j", "k", "l", "-"}
DateKeyDelta(key) ==
    CASE key = "h" -> -1 [] key = "l" -> 1 [] key = "j" -> 7 [] key \in {"k", "-"} -> -7

\* the last key completed the sequence `digits` + `keys`, typed from a fresh state
Typed(digits, keys) ==
    /\ lastAct = "feed"
    /\ obs.done = digits \o keys
    /\ Fresh(obs.unitStart[1].c)

\* C8: in NORMAL mode with nothing pending, the digits of a count n and then a
\* date-motion key of delta d set the selected date to D + n*d and leave the entity
\* model, the registers and the undo/redo stacks as they were.
C8_CountScalesDateMotion ==
    \A key \in DateMotionKeys :
        LET digits == Front(obs.done)
            start == obs.unitStart[1]
        IN (Len(obs.done) >= 2 /\ AllDigits(digits) /\ Typed(digits, <<key>>)) =>
              /\ selected_date = start.sd + int(digits) * DateKeyDelta(key)
              /\ World = start.w
              /\ regs = start.regs
              /\ undo_stack = start.undo /\ redo_stack = start.redo

\* count 3 with the key of delta 7 moved the selection 21 days on, although the
\* unit before it was typed with another count
C8_Witness ==
    /\ Typed(<<"3">>, <<"j">>)
    /\ obs.unitStart[1].c.motion_count \notin {1, 3}
    /\ selected_date = obs.unitStart[1].sd + 21

\* the date the goto contract gives for a count buffer: by length, in the order
\* month, day, year; the selection itself where there is no such date
GotoDate(digits, current) ==
    LET cur == ord2ymd(current)
        mm == int(SubSeq(digits, 1, 2))
        dd == int(SubSeq(digits, 3, 4))
        target == CASE Len(digits) = 8 -> date(int(SubSeq(digits, 5, 8)), mm, dd)
                    [] Len(digits) = 6 -> date(int(SubSeq(digits, 3, 6)), mm, 1)
                    [] Len(digits) = 4 -> date(cur.year, mm, dd)
                    [] Len(digits) \in {1, 2} -> date(cur.year, cur.month, int(digits))
                    [] OTHER -> <<>>
    IN IF target = <<>> THEN current ELSE target[1]

GotoKeys == {<<"g", "g">>, <<"G">>}

\* C9 as stated: goto with a non-empty count buffer selects the date the buffer
\* stands for by its length (8: month, day, year; 6: month, year, day 1; 4: month, day
\* in the selected year; 1-2: day in the selected month), and leaves the selection
\* unchanged for any other length or where the digits are not a calendar date.
C9_GotoParsesByLength ==
    \A keys \in GotoKeys :
        LET digits == SubSeq(obs.done, 1, Len(obs.done) - Len(keys))
        IN (Len(obs.done) > Len(keys) /\ AllDigits(digits) /\ Typed(digits, keys)) =>
              selected_date = GotoDate(digits, obs.unitStart[1].sd)

\* C10 as stated: gg with an empty count buffer selects today.
C10_GotoEmptyIsToday ==
    Typed(<<>>, <<"g", "g">>) => selected_date = today

----------------------------------------------------------------------------
(* Command-line mode: KeyParser._feed_command_mode.  The keys are the       *)
(* characters of ExChars and the key codes ESC, ENTER and BS (backspace).   *)

ExChars == {"q", "!", "x", " "}

\* str.strip() and str.split() on a list of characters
RECURSIVE lstrip(_)
lstrip(str) == IF str # <<>> /\ Head(str) = " " THEN lstrip(Tail(str)) ELSE str

RECURSIVE rstrip(_)
rstrip(str) == IF str # <<>> /\ Last(str) = " " THEN rstrip(Front(str)) ELSE str

strip(str) == rstrip(lstrip(str))

RECURSIVE FirstWord(_)
FirstWord(str) ==
    IF str = <<>> \/ Head(str) = " " THEN <<>> ELSE <<Head(str)>> \o FirstWord(Tail(str))

RECURSIVE split(_)
SplitWhole(str) == IF str = <<>> THEN <<>> ELSE <<str>>

split(str) ==
    LET rest == lstrip(str)
        word == FirstWord(rest)
    IN IF rest = <<>> THEN <<>>
       ELSE <<word>> \o split(SubSeq(rest, Len(word) + 1, Len(rest)))

\* the names of init_default_cmdmap that the characters of ExChars spell
exmap == {<<"q">>, <<"q", "!">>}

exit_clears_pending(c) == [clear(c) EXCEPT !.mode = "NORMAL"]

\* KeyParser._exit_command_mode: the CmdArgs part; input_buffer becomes ""
exit_command_mode(c) == [c EXCEPT !.mode = "NORMAL"]

\* editor.status.notify(msg, error=True): a notice is shown, nothing is raised
notify(o, word) == [o EXCEPT !.notice = <<word>>]

\* KeyParser.feed(key) in EX_CMD mode (_feed_command_mode)
feed_command_mode(key) ==
    /\ Idle
    /\ cmdargs.mode = "EX_CMD"
    /\ key \in ExChars => Len(input_buffer) < MaxBuf
    /\ LET cmd_str == strip(input_buffer)
           parts == split(cmd_str)
           c1 == [cmdargs EXCEPT !.ex_params = Tail(parts)]
       IN CASE key = "ESC" ->
                 /\ cmdargs' = exit_command_mode(cmdargs)
                 /\ input_buffer' = <<>>
                 /\ obs' = [obs EXCEPT !.notice = <<>>]
                 /\ lastAct' = "ex_esc"
                 /\ UNCHANGED exited
            [] key = "ENTER" /\ cmd_str = <<>> ->
                 /\ cmdargs' = exit_command_mode(cmdargs)
                 /\ input_buffer' = <<>>
                 /\ obs' = [obs EXCEPT !.notice = <<>>]
                 /\ lastAct' = "ex_enter_empty"
                 /\ UNCHANGED exited
            [] key = "ENTER" /\ cmd_str # <<>> /\ parts[1] \notin exmap ->
                 /\ cmdargs' = exit_command_mode(c1)
                 /\ input_buffer' = <<>>
                 /\ obs' = notify(obs, parts[1])
                 /\ lastAct' = "ex_enter_unknown"
                 /\ UNCHANGED exited
            [] key = "ENTER" /\ cmd_str # <<>> /\ parts[1] \in exmap ->
                 \* ex_quit / ex_quit_bang: SystemExit leaves the parser at once
                 LET quits == parts[1] = <<"q", "!">> \/ ~dirty
                 IN /\ exited' = quits
                    /\ cmdargs' = IF quits THEN c1 ELSE exit_command_mode(c1)
                    /\ input_buffer' = IF quits THEN input_buffer ELSE <<>>
                    /\ obs' = [obs EXCEPT !.notice = <<>>]
                    /\ lastAct' = "ex_enter"
            [] key = "BS" ->
                 /\ cmdargs' = IF input_buffer # <<>> THEN cmdargs
                               ELSE exit_command_mode(cmdargs)
                 /\ input_buffer' = IF input_buffer # <<>> THEN Front(input_buffer) ELSE <<>>
                 /\ obs' = [obs EXCEPT !.notice = <<>>]
                 /\ lastAct' = "ex_backspace"
                 /\ UNCHANGED exited
            [] OTHER ->
                 /\ cmdargs' = cmdargs
                 /\ input_buffer' = Append(input_buffer, key)
                 /\ obs' = [obs EXCEPT !.notice = <<>>]
                 /\ lastAct' = "ex_char"
                 /\ UNCHANGED exited
    /\ UNCHANGED <<item, subcalendars, current_tx, undo_stack, redo_stack, next_id, regs,
                   selected_date, selected_item_index, halted, saved_tx, subcal,
                   limits, today, editor_mode, prompt>>

\* the key sequences typed in NORMAL mode in the command-line specification
ExUnits ==
    { <<"d">>, <<":">>, <<"2", ":">>, <<"ESC">>, <<"2", "ESC">>, <<"g", "ESC">> }

ExKeyInputs == UNION {{u[k] : k \in 1..Len(u)} : u \in ExUnits}

\* Command-line specification: one task on the start-up date in subcalendar 1
InitEx ==
    \E t \in {ymd2ord(2026, 11, 4)} :
        /\ InitEditor(load_subcalendars(
               EmptyWorld([i \in ItemUids |-> NewItem("task", "a", t)]),
               [i \in ItemUids |-> IF i = 1 THEN 1 ELSE 0], 1), t)
        /\ limits = [maxTx |-> MaxUnits, maxOps |-> MaxUnits, maxHistory |-> MAX_HISTORY,
                     items |-> {1}, attrs |-> FALSE, units |-> ExUnits]

NextEx ==
    \/ \E key \in ExKeyInputs : UnitAllows(key) /\ feed(key)
    \/ \E key \in ExChars \cup {"ESC", "ENTER", "BS"} : feed_command_mode(key)

SpecEx == InitEx /\ [][NextEx]_vars

----------------------------------------------------------------------------
(* Operator keys *)

\* the key sequences typed in the operator-key specification
OpUnits ==
    { <<"d">>, <<"y">>, <<"c">>, <<"2", "d">>, <<"C">>, <<" ">>,
      <<"l">>, <<"2", "h">>, <<"j">>,
      <<"g", "g">>, <<"g", "0">>, <<"g", "j">>, <<"g", "k">> }

OpKeyInputs == UNION {{u[k] : k \in 1..Len(u)} : u \in OpUnits}

\* Operator-key specification: one task on the start-up date in subcalendar 1,
\* one event the day after in subcalendar 2
InitOpKeys ==
    \E t \in {ymd2ord(2026, 11, 4)} :
        /\ InitEditor(load_subcalendars(
               EmptyWorld([i \in ItemUids |->
                   IF i = 2 THEN NewItem("event", "B", t + 1) ELSE NewItem("task", "a", t)]),
               [i \in ItemUids |-> IF i \in {1, 2} THEN i ELSE 0], 1), t)
        /\ limits = [maxTx |-> MaxUnits, maxOps |-> MaxUnits, maxHistory |-> MAX_HISTORY,
                     items |-> {1, 2}, attrs |-> FALSE, units |-> OpUnits]

NextOpKeys == \E key \in OpKeyInputs : UnitAllows(key) /\ feed(key)

SpecOpKeys == InitOpKeys /\ [][NextOpKeys]_vars

\* the last key was `key`, typed as the primary key after the digits of a count,
\* in NORMAL mode and with the pending operator `pending` when the count began
KeyTyped(key, pending) ==
    /\ lastAct = "feed"
    /\ obs.done # <<>> /\ Last(obs.done) = key /\ AllDigits(Front(obs.done))
    /\ obs.unitStart[1].c.mode = "NORMAL"
    /\ obs.unitStart[1].c.key = ""
    /\ obs.unitStart[1].c.op_pending_key = pending

\* the count buffer when that key was pressed
CountTyped == obs.unitStart[1].c.count_buffer \o Front(obs.done)

\* C22: a lowercase operator key (d, y, c) pressed as the primary key while no
\* operator is pending becomes the pending operator, the count buffer becomes the
\* operator count (1 when empty) and is emptied, and nothing is executed: the
\* entity model, the registers and the undo/redo stacks are unchanged.
C22_OperatorKeyBecomesPending ==
    \A key \in {"d", "y", "c"} :
        KeyTyped(key, "") =>
            /\ cmdargs.op_pending_key = key
            /\ cmdargs.op_count = IF CountTyped = <<>> THEN 1 ELSE int(CountTyped)
            /\ cmdargs.count_buffer = <<>>
            /\ World = obs.unitStart[1].w
            /\ regs = obs.unitStart[1].regs
            /\ undo_stack = obs.unitStart[1].undo /\ redo_stack = obs.unitStart[1].redo
            /\ ~halted

\* 2d typed with nothing pending: d is pending with operator count 2
C22_Witness ==
    /\ KeyTyped("d", "")
    /\ obs.done = <<"2", "d">>
    /\ cmdargs.op_pending_key = "d" /\ cmdargs.op_count = 2

\* the last key asked for single-unit execution: it repeated the pending
\* operator, or was an uppercase operator key or space
SingleUnitTyped ==
    \/ \E key \in {"d", "y", "c"} : KeyTyped(key, key)
    \/ \E key \in {"C", " "}, pending \in {"", "d", "y", "c"} : KeyTyped(key, pending)

\* the item selected when the key sequence began: <<uid>> or <<>>
SelectedAtStart ==
    selected_item(obs.unitStart[1].w, obs.unitStart[1].sd, obs.unitStart[1].idx)

\* C23 as stated: after a key that repeats the pending operator, an uppercase
\* operator key or space, no item but the selected one is changed, no operator is
\* pending and the count buffers are reset; with no item selected on the current
\* date nothing is changed, and still no operator is pending.
C23_SingleUnitExecutes ==
    SingleUnitTyped =>
        /\ ~halted
        /\ cmdargs.op_pending_key = ""
        /\ cmdargs.count_buffer = <<>> /\ cmdargs.op_count = 1 /\ cmdargs.motion_count = 1
        /\ \A i \in ItemUids \ {SelectedAtStart[k] : k \in 1..Len(SelectedAtStart)} :
               item[i] = obs.unitStart[1].w.item[i]
        /\ SelectedAtStart = <<>> =>
               /\ World = obs.unitStart[1].w
               /\ regs = obs.unitStart[1].regs
               /\ undo_stack = obs.unitStart[1].undo /\ redo_stack = obs.unitStart[1].redo

\* the dates of the inclusive range between two dates
DateRange(d1, d2) == IF d1 <= d2 THEN d1..d2 ELSE d2..d1

\* the items attached when the key sequence began that occur in the range
\* between the selected date then and the selected date now
InMotionRange ==
    {i \in ItemUids : /\ obs.unitStart[1].w.item[i].parent # 0
                      /\ obs.unitStart[1].w.item[i].date \in
                             DateRange(obs.unitStart[1].sd, selected_date)}

\* C24 as stated: with an operator pending, a date-motion key with an optional
\* count moves the selection and applies the operator to exactly the items on the
\* dates between the old and the new selected date (for d: those items and no
\* others are removed), and no operator is pending afterwards; with no operator
\* pending the key only moves the selection.
C24_OperatorMotionRange ==
    \A key \in DateMotionKeys :
        /\ \A pending \in {"d", "y", "c"} :
              KeyTyped(key, pending) =>
                 /\ ~halted
                 /\ selected_date # obs.unitStart[1].sd
                 /\ cmdargs.op_pending_key = ""
                 /\ pending = "d" =>
                        \A i \in ItemUids : obs.unitStart[1].w.item[i].parent # 0 =>
                            (item[i].parent = 0 <=> i \in InMotionRange)
                 /\ pending # "d" => World = obs.unitStart[1].w
        /\ KeyTyped(key, "") =>
                 /\ ~halted
                 /\ selected_date # obs.unitStart[1].sd
                 /\ cmdargs.op_pending_key = ""
                 /\ World = obs.unitStart[1].w /\ regs = obs.unitStart[1].regs
                 /\ undo_stack = obs.unitStart[1].undo /\ redo_stack = obs.unitStart[1].redo

\* the command nv_g_cmd has for a second key
GCommand(key) ==
    CASE key = "g" -> "nv_goto" [] key = "0" -> "nv_week_start"
      [] key = "j" -> "nv_item_down" [] key = "k" -> "nv_item_up"

\* g was typed as the primary key, and then `keys`
PrefixTyped(keys) ==
    /\ lastAct = "feed"
    /\ (obs.typed = <<"g">> \o keys \/ obs.done = <<"g">> \o keys)
    /\ obs.unitStart[1].c.mode = "NORMAL"
    /\ obs.unitStart[1].c.key = ""

\* C25 as stated: after the prefix key g nothing is dispatched until a second key
\* arrives; for each second key of {g, 0, j, k} its command (goto, week start,
\* item down, item up) is dispatched exactly once, and both key slots are empty
\* afterwards.
C25_PrefixDispatchesOnce ==
    /\ PrefixTyped(<<>>) =>
          /\ obs.called = <<>>
          /\ cmdargs.key = "g" /\ cmdargs.next_key = ""
          /\ selected_date = obs.unitStart[1].sd
          /\ World = obs.unitStart[1].w
    /\ \A key \in {"g", "0", "j", "k"} :
          PrefixTyped(<<key>>) =>
              /\ obs.called = <<GCommand(key)>>
              /\ cmdargs.key = "" /\ cmdargs.next_key = ""

----------------------------------------------------------------------------
(* Properties of the command-line mode *)

\* nothing was executed by the step: the entity model, the registers and the
\* stacks are as before, and the program neither stopped nor failed
NothingExecuted ==
    UNCHANGED <<item, subcalendars, regs, undo_stack, redo_stack, current_tx, next_id,
                saved_tx, exited, halted, selected_date, selected_item_index>>

\* ':' was typed as the primary key, after the digits of a count
ColonTyped == \E pending \in {"", "d"} : KeyTyped(":", pending)

EscTyped ==
    \/ lastAct = "feed" /\ obs.done # <<>> /\ Last(obs.done) = "ESC"
    \/ lastAct = "ex_esc"

\* C27 as stated: after a single ESC key, whatever was pending, the mode is
\* NORMAL, no operator is pending, the key slots and the count buffer are empty,
\* no command line is open, and no transaction was committed: the undo stack and
\* the entity model are as they were.
C27_EscResetsEverything ==
    EscTyped =>
        /\ ~halted
        /\ cmdargs.mode = "NORMAL"
        /\ cmdargs.op_pending_key = ""
        /\ cmdargs.key = "" /\ cmdargs.next_key = ""
        /\ cmdargs.count_buffer = <<>>
        /\ input_buffer = <<>>
        /\ undo_stack = obs.unitStart[1].undo
        /\ World = obs.unitStart[1].w

\* the command names of init_default_cmdmap
CommandNames ==
    { <<"q">>, <<"q", "u", "i", "t">>, <<"q", "!">>, <<"q", "u", "i", "t", "!">>,
      <<"w">>, <<"w", "r", "i", "t", "e">>, <<"w", "q">>,
      <<"w", "r", "i", "t", "e", "q", "u", "i", "t">> }

\* the command word of a command buffer
TypedCommand(buf) == FirstWord(lstrip(buf))

\* C28: Enter on a command buffer whose command word is not in the command map
\* gives an error notice naming that word and nothing else: the program goes on,
\* the entity model, the registers, the stacks and the selection are unchanged,
\* the mode is NORMAL again and the command buffer is empty.
C28_UnknownCommandOnlyNotifies ==
    [][(/\ cmdargs.mode = "EX_CMD"
        /\ lastAct' \in {"ex_enter", "ex_enter_unknown", "ex_enter_empty"}
        /\ TypedCommand(input_buffer) # <<>>
        /\ TypedCommand(input_buffer) \notin CommandNames) =>
            /\ obs'.notice = <<TypedCommand(input_buffer)>>
            /\ NothingExecuted
            /\ cmdargs'.mode = "NORMAL"
            /\ input_buffer' = <<>>]_vars

\* the unknown command x was submitted with a parameter after d, d had made the
\* editor dirty: a notice, NORMAL mode, an empty buffer
C28_Witness ==
    /\ lastAct = "ex_enter_unknown"
    /\ obs.notice = << <<"x">> >>
    /\ cmdargs.ex_params # <<>>
    /\ undo_stack # <<>>
    /\ cmdargs.mode = "NORMAL" /\ input_buffer = <<>> /\ ~halted /\ ~exited

----------------------------------------------------------------------------
(* Registers and later changes of the items they were written from *)

\* Register.clear(regname) called on the editor's registers
register_clear(regname) ==
    /\ Idle
    /\ regs' = Register_clear(regs, regname)
    /\ lastAct' = "register_clear"
    /\ UNCHANGED <<item, subcalendars, current_tx, undo_stack, redo_stack, next_id,
                   selected_date, selected_item_index, cmdargs, halted, saved_tx, exited,
                   subcal, input_buffer, editor_mode, prompt, limits, today, obs>>

\* Register specification: one task in subcalendar 1, which is yanked or
\* deleted into a register and renamed, completed, moved, removed and restored
InitReg ==
    /\ InitEditor(load_subcalendars(
           EmptyWorld([i \in ItemUids |-> NewItem("task", "a", 1)]),
           [i \in ItemUids |-> IF i = 1 THEN 1 ELSE 0], 1), 1)
    /\ limits = [maxTx |-> MaxTx, maxOps |-> MaxOps, maxHistory |-> MAX_HISTORY,
                 items |-> {1}, attrs |-> TRUE]

NextReg ==
    \/ \E regname \in {"a", "A"} : item[1].parent # 0 /\ op_yank(<<1>>, regname)
    \/ item[1].parent # 0 /\ op_delete(<<1>>, "\"")
    \/ register_clear("a")
    \/ begin_transaction
    \/ \E new \in Names : tx_set_item_attr(1, "name", new)
    \/ \E new \in BOOLEAN : tx_set_item_attr(1, "completed", new)
    \/ \E dst \in SubcalUids : tx_move_item(1, dst)
    \/ tx_remove_item(1)
    \/ commit_transaction
    \/ tx_undo
    \/ tx_redo

SpecReg == InitReg /\ [][NextReg]_vars

\* the register names Register.get is called with
GetNames == RegNames \cup {"A"}

\* C30: a write stores the name, the completed flag and the subcalendar uid the
\* items have at that moment, and no later step but a write or a clear changes
\* what Register.get returns for any register: not renaming, completing, moving
\* or removing the items, and not undo or redo.
C30_RegistersKeepSnapshots ==
    [][/\ lastAct' \notin {"op_yank", "op_delete", "register_clear"} =>
            \A r \in GetNames : Register_get(regs', r) = Register_get(regs, r)
       /\ (lastAct' \in {"op_yank", "op_delete"} /\ obs'.targets # <<>>) =>
            LET got == Register_get(regs', "\"")
            IN /\ Len(got) = Len(obs'.targets)
               /\ \A k \in 1..Len(got) :
                     /\ got[k].name = item[obs'.targets[k]].name
                     /\ got[k].completed = item[obs'.targets[k]].completed
                     /\ got[k].original_subcal_uid = item[obs'.targets[k]].parent]_vars

\* the task was yanked under the name "a"; it has since been renamed in a
\* committed transaction, and the unnamed register still returns the payload
\* of the yank
C30_Witness ==
    /\ lastAct = "commit"
    /\ item[1].name = "B"
    /\ Len(Register_get(regs, "\"")) = 1
    /\ Register_get(regs, "\"")[1].name = "a"
    /\ Register_get(regs, "a") = Register_get(regs, "\"")

----------------------------------------------------------------------------
(* Editor commands on subcalendars and items: src/vical/core/commands.py.   *)
(* A command that opens a prompt is modelled together with the submit of    *)
(* the prompt; `name` and `resp` are the submitted text.                    *)

\* Editor.get_items_for_selected_day: the items of the visible subcalendars
\* of editor.subcalendars that occur on the selected date, in list order
RECURSIVE VisibleItemsOfDay(_, _, _, _)
VisibleItemsOfDay(w, s, sd, k) ==
    IF k > Len(s.order) THEN <<>>
    ELSE (IF s.info[s.order[k]].hidden \/ s.order[k] \notin SubcalUids THEN <<>>
          ELSE SelectSeq(w.subcalendars[s.order[k]], LAMBDA i : w.item[i].date = sd))
         \o VisibleItemsOfDay(w, s, sd, k + 1)

\* str.strip() of the submitted text is empty
blank(name) == name \in {"", " "}

\* Subcalendar objects not made yet
Unmade == {sc \in SubcalObjs : subcal.info[sc].name = ""}

\* editor.selected_subcal raises IndexError
NoSelectedSubcal == subcal.selected >= Len(subcal.order)

CommandObs ==
    [obs EXCEPT !.before = <<World, undo_stack, redo_stack, subcal>>,
                !.idBefore = next_id, !.expect = NoSnap, !.txStart = NoSnap]

UNCHANGED_cmd ==
    UNCHANGED <<regs, selected_date, selected_item_index, cmdargs, limits, today,
                saved_tx, exited, input_buffer, editor_mode, prompt>>

\* new_subcal, execute(name): subcalendars.append(new_subcal), with no
\* transaction and no Op
new_subcal(name) ==
    /\ Idle
    /\ Unmade # {}
    /\ subcal' = IF blank(name) THEN subcal
                 ELSE LET sc == CHOOSE x \in Unmade : \A y \in Unmade : x <= y
                      IN [subcal EXCEPT !.order = Append(@, sc), !.info[sc].name = name]
    /\ obs' = CommandObs
    /\ lastAct' = "new_subcal"
    /\ UNCHANGED <<item, subcalendars, current_tx, undo_stack, redo_stack, next_id, halted>>
    /\ UNCHANGED_cmd

\* hide_subcal: subcal.toggle_hidden() on editor.selected_subcal
hide_subcal ==
    /\ Idle
    /\ IF NoSelectedSubcal
       THEN /\ halted' = TRUE
            /\ UNCHANGED subcal
       ELSE /\ halted' = FALSE
            /\ subcal' = [subcal EXCEPT !.info[subcal.order[subcal.selected + 1]].hidden = ~@]
    /\ obs' = CommandObs
    /\ lastAct' = "hide_subcal"
    /\ UNCHANGED <<item, subcalendars, current_tx, undo_stack, redo_stack, next_id>>
    /\ UNCHANGED_cmd

\* delete_subcal, confirm_delete(resp): editor.subcalendars.remove(subcal)
\* inside a transaction that records no Op, so the commit discards it
delete_subcal(resp) ==
    /\ Idle
    /\ next_id <= limits.maxTx
    /\ IF NoSelectedSubcal
       THEN /\ halted' = TRUE
            /\ UNCHANGED <<subcal, next_id>>
       ELSE /\ halted' = FALSE
            /\ IF lower(resp) # "y"
               THEN UNCHANGED <<subcal, next_id>>
               ELSE /\ next_id' = next_id + 1
                    /\ subcal' = [subcal EXCEPT
                          !.order = ListRemove(@, subcal.order[subcal.selected + 1]),
                          !.selected = IF @ - 1 > 0 THEN @ - 1 ELSE 0]
    /\ obs' = CommandObs
    /\ lastAct' = "delete_subcal"
    /\ UNCHANGED <<item, subcalendars, current_tx, undo_stack, redo_stack>>
    /\ UNCHANGED_cmd

\* next_subcal
next_subcal ==
    /\ Idle
    /\ subcal' = IF subcal.order = <<>> THEN subcal
                 ELSE [subcal EXCEPT !.selected = (@ + 1) % Len(subcal.order)]
    /\ obs' = CommandObs
    /\ lastAct' = "next_subcal"
    /\ UNCHANGED <<item, subcalendars, current_tx, undo_stack, redo_stack, next_id, halted>>
    /\ UNCHANGED_cmd

\* mark_complete: set_attr(editor, task, "completed", not task.completed) on
\* the selected item, inside one transaction
mark_complete ==
    /\ Idle
    /\ next_id <= limits.maxTx
    /\ LET items == VisibleItemsOfDay(World, subcal, selected_date, 1)
           task == IF items = <<>> THEN <<>>
                   ELSE <<items[(selected_item_index % Len(items)) + 1]>>
       IN IF task = <<>> \/ item[task[1]].kind # "task"
          THEN /\ UNCHANGED <<item, undo_stack, redo_stack, next_id>>
               /\ obs' = CommandObs
          ELSE LET i == task[1]
                   op == OpSetItemAttr(i, "completed", item[i].completed, ~item[i].completed)
                   tx == [id |-> next_id, ops |-> <<op>>]
               IN /\ item' = SetAttr(World, i, "completed", ~item[i].completed).item
                  /\ undo_stack' = PushHistory(undo_stack, tx)
                  /\ redo_stack' = redo_clear(redo_stack)
                  /\ next_id' = next_id + 1
                  /\ obs' = [CommandObs EXCEPT !.commits = Append(@, tx.id),
                                !.pre_undo = LastN(Append(@, World), Len(undo_stack'))]
    /\ lastAct' = "mark_complete"
    /\ UNCHANGED <<subcalendars, current_tx, halted, subcal>>
    /\ UNCHANGED_cmd

\* Command specification: one task on the selected date in subcalendar 1
InitCmd ==
    /\ InitEditor(load_subcalendars(
           EmptyWorld([i \in ItemUids |-> NewItem("task", "a", 1)]),
           [i \in ItemUids |-> IF i = 1 THEN 1 ELSE 0], 1), 1)
    /\ limits = [maxTx |-> MaxTx + 1, maxOps |-> MaxTx, maxHistory |-> MAX_HISTORY,
                 items |-> {1}, attrs |-> TRUE]

NextCmd ==
    \/ \E name \in Names \cup {" "} : new_subcal(name)
    \/ hide_subcal
    \/ \E resp \in {"y", "Y", "n"} : delete_subcal(resp)
    \/ next_subcal
    \/ mark_complete
    \/ tx_undo
    \/ tx_redo

SpecCmd == InitCmd /\ [][NextCmd]_vars

\* the last step was a command, and it changed an item or a subcalendar
CommandChangedModel ==
    /\ lastAct \in {"new_subcal", "hide_subcal", "delete_subcal", "mark_complete"}
    /\ \/ World # obs.before[1]
       \/ subcal.order # obs.before[4].order
       \/ subcal.info # obs.before[4].info

\* C21 as stated: a command that changed the entity model committed exactly
\* one transaction with at least one Op, the editor is dirty afterwards, and
\* reverting that transaction gives the model there was before the command.
C21_CommandsCommitOneTransaction ==
    CommandChangedModel =>
        /\ undo_stack # <<>>
        /\ undo_stack = LastN(Append(obs.before[2], Last(undo_stack)), limits.maxHistory)
        /\ Last(undo_stack).id = obs.idBefore
        /\ Last(undo_stack).ops # <<>>
        /\ dirty
        /\ Transaction_revert(Last(undo_stack), World).w = obs.before[1]
        /\ subcal.order = obs.before[4].order
        /\ subcal.info = obs.before[4].info

----------------------------------------------------------------------------
(* Paste: _paste_item, src/vical/core/commands.py *)

\* CalendarItem.from_register(payload) reads payload.kind first: a list has
\* no attribute `kind`, so it raises AttributeError for a list, and builds
\* Task(uid=None, ...) / Event(uid=None, ...) from one RegisterPayload
from_register(payload, is_list) ==
    IF is_list THEN [raised |-> TRUE, made |-> <<>>]
    ELSE [raised |-> FALSE,
          made |-> <<[kind |-> payload.kind, name |-> payload.name,
                      completed |-> payload.completed, date |-> payload.date,
                      parent |-> 0]>>]

\* uid = uuid.uuid4().hex: an item object that was never loaded
NewUids == {i \in ItemUids \ limits.items : item[i].parent = 0}

\* _paste_item(editor, original_subcal): editor.selected_register is '"' and
\* is assigned nowhere else; Register.get returns a list of payloads, which is
\* handed to CalendarItem.from_register as it is
paste_item(original_subcal) ==
    /\ Idle
    /\ next_id <= limits.maxTx
    /\ LET payload == Register_get(regs, "\"")
           built == from_register(payload, TRUE)
       IN IF payload = <<>>
          THEN UNCHANGED <<item, subcalendars, undo_stack, redo_stack, next_id, halted>>
          ELSE IF built.raised
          THEN /\ halted' = TRUE
               /\ UNCHANGED <<item, subcalendars, undo_stack, redo_stack, next_id>>
          ELSE LET target == IF original_subcal THEN payload.original_subcal_uid
                             ELSE IF NoSelectedSubcal THEN 0
                             ELSE subcal.order[subcal.selected + 1]
               IN IF target \notin SubcalUids \/ NewUids = {}
                  THEN UNCHANGED <<item, subcalendars, undo_stack, redo_stack, next_id, halted>>
                  ELSE LET i == CHOOSE x \in NewUids : \A y \in NewUids : x <= y
                           w == [World EXCEPT !.item[i] =
                                    [built.made[1] EXCEPT !.date = selected_date]]
                           tx == [id |-> next_id, ops |-> <<OpInsertItem(target, i)>>]
                       IN /\ item' = Attach(w, target, i).item
                          /\ subcalendars' = Attach(w, target, i).subcalendars
                          /\ undo_stack' = PushHistory(undo_stack, tx)
                          /\ redo_stack' = redo_clear(redo_stack)
                          /\ next_id' = next_id + 1
                          /\ UNCHANGED halted
    /\ obs' = [CommandObs EXCEPT !.regsBefore = regs]
    /\ lastAct' = "paste_item"
    /\ UNCHANGED <<current_tx, subcal>>
    /\ UNCHANGED_cmd

\* Paste specification: the register specification with paste
NextPaste ==
    \/ \E regname \in {"\"", "a"} : item[1].parent # 0 /\ op_yank(<<1>>, regname)
    \/ item[1].parent # 0 /\ op_delete(<<1>>, "\"")
    \/ \E original_subcal \in BOOLEAN : paste_item(original_subcal)
    \/ next_subcal
    \/ begin_transaction
    \/ \E new \in Names : tx_set_item_attr(1, "name", new)
    \/ commit_transaction
    \/ tx_undo
    \/ tx_redo

SpecPaste == InitReg /\ [][NextPaste]_vars

\* the last step was a paste, and the register it read held something
PastedFromNonEmpty ==
    lastAct = "paste_item" /\ Register_get(obs.regsBefore, "\"") # <<>>

\* C31 as stated: a paste from a non-empty register commits one transaction
\* that inserts items which were in no subcalendar before, on the selected
\* date; the registers are unchanged, and reverting that transaction gives
\* the model there was before the paste.
C31_PasteInsertsNewItems ==
    PastedFromNonEmpty =>
        /\ ~halted
        /\ regs = obs.regsBefore
        /\ undo_stack # <<>>
        /\ undo_stack = LastN(Append(obs.before[2], Last(undo_stack)), limits.maxHistory)
        /\ Last(undo_stack).id = obs.idBefore
        /\ Last(undo_stack).ops # <<>>
        /\ \A k \in 1..Len(Last(undo_stack).ops) :
              LET op == Last(undo_stack).ops[k]
              IN /\ op.type = "insert"
                 /\ ~get_item_by_uid(obs.before[1], op.item)
                 /\ InList(subcalendars[op.sc], op.item)
                 /\ item[op.item].date = selected_date
        /\ Transaction_revert(Last(undo_stack), World).w.subcalendars
              = obs.before[1].subcalendars

----------------------------------------------------------------------------
(* Sort order and attribute-sets *)

\* C32 as stated: with no transaction open and no exception raised so far,
\* every subcalendar's items list is sorted by (effective date, type rank,
\* lower-cased name), also after a committed attribute-set that changed a
\* name and after undoing or redoing it.
C32_SortedAfterAttrSet == (Idle /\ obs.clean) => AllSorted

----------------------------------------------------------------------------
(* Counts of earlier key sequences *)

\* C33 as stated: a date-motion key typed with an empty count buffer, in
\* NORMAL mode with nothing pending, moves the selected date by exactly its
\* base delta, whatever counts the key sequences before it were typed with.
C33_CountResetPerUnit ==
    \A key \in DateMotionKeys :
        Typed(<<>>, <<key>>) =>
            selected_date = obs.unitStart[1].sd + DateKeyDelta(key)

----------------------------------------------------------------------------
(* Unsaved changes: the save specification with saves that succeed and the  *)
(* checked quit commands only                                               *)

NextDirty ==
    \/ begin_transaction
    \/ \E new \in Names : tx_set_item_attr(1, "name", new)
    \/ commit_transaction
    \/ tx_undo
    \/ tx_redo
    \/ write(TRUE)
    \/ ex_write(TRUE)
    \/ quit
    \/ ex_quit

SpecDirty == InitSave /\ [][NextDirty]_vars

\* the entity model load_subcalendars() gave at start-up (InitSave)
LoadedModel ==
    load_subcalendars(
        EmptyWorld([i \in ItemUids |-> NewItem("task", "a", 1)]),
        [i \in ItemUids |-> IF i = 1 THEN 1 ELSE 0], 1)

\* the entity model as of the last save, as loaded if nothing was saved yet
SavedModel == IF obs.atSave = NoSnap THEN LoadedModel ELSE obs.atSave[2]

\* C34 as stated: with no transaction open, whenever the entity model differs
\* from the model as of the last successful save (as loaded, if never
\* saved), the editor is dirty, and a :q there did not exit.
C34_DirtyWhenModelDiffers ==
    (current_tx = <<>> /\ World # SavedModel) =>
        /\ ~exited => dirty
        /\ lastAct \in {"quit", "ex_quit"} => ~exited

----------------------------------------------------------------------------
(* Item motions *)

\* the key sequences typed in the item-key specification
ItemUnits ==
    { <<"g", "j">>, <<"g", "k">>, <<"2", "g", "j">>, <<"3", "g", "k">>,
      <<"1", "g", "j">>, <<"l">>, <<"h">>, <<"2", "l">> }

ItemKeyInputs == UNION {{u[k] : k \in 1..Len(u)} : u \in ItemUnits}

\* Item-key specification: two tasks on the start-up date, one in each
\* subcalendar, and no item on the days around it
InitItemKeys ==
    \E t \in TodayInputs :
        /\ InitEditor(load_subcalendars(
               EmptyWorld([i \in ItemUids |->
                   IF i = 2 THEN NewItem("task", "B", t) ELSE NewItem("task", "a", t)]),
               [i \in ItemUids |-> IF i \in {1, 2} THEN i ELSE 0], 1), t)
        /\ limits = [maxTx |-> MaxUnits, maxOps |-> MaxUnits, maxHistory |-> MAX_HISTORY,
                     items |-> {1, 2}, attrs |-> FALSE, units |-> ItemUnits]

NextItemKeys == \E key \in ItemKeyInputs : UnitAllows(key) /\ feed(key)

SpecItemKeys == InitItemKeys /\ [][NextItemKeys]_vars

\* the last key completed gj or gk, with or without a count, typed from a
\* fresh state
ItemMotionTyped ==
    \E key \in {"j", "k"} :
        LET digits == SubSeq(obs.done, 1, Len(obs.done) - 2)
        IN Len(obs.done) >= 2 /\ AllDigits(digits) /\ Typed(digits, <<"g", key>>)

\* C35 as stated: after gj or gk with any count the selected item index lies
\* in 0..n-1, n being the number of items shown for the selected date, and
\* is 0 when n = 0; on a date without items the motion changes neither the
\* selection nor the entity model.
C35_ItemIndexInRange ==
    ItemMotionTyped =>
        LET n == Len(get_items_for_selected_date(World, selected_date))
        IN /\ ~halted
           /\ n > 0 => selected_item_index \in 0..(n - 1)
           /\ n = 0 => /\ selected_item_index = 0
                       /\ selected_date = obs.unitStart[1].sd
                       /\ selected_item_index = obs.unitStart[1].idx
                       /\ World = obs.unitStart[1].w

----------------------------------------------------------------------------
(* Ownership of items *)

\* how often the list holds x
Occurrences(list, x) == Cardinality({k \in 1..Len(list) : list[k] = x})

\* every item is in at most one items list and at most once in it; its
\* parent_subcal is the subcalendar that lists it, and None if none does
Owned(w) ==
    \A i \in ItemUids :
        /\ \A sc \in SubcalUids :
              /\ Occurrences(w.subcalendars[sc], i) <= 1
              /\ InList(w.subcalendars[sc], i) => w.item[i].parent = sc
        /\ w.item[i].parent # 0 => InList(w.subcalendars[w.item[i].parent], i)

\* C36 as stated: in every reachable state each item is in at most one
\* subcalendar's items list and at most once in it, and its parent_subcal is
\* the subcalendar whose list holds it, None while it is detached.
C36_ExclusiveOwnership == Owned(World)

----------------------------------------------------------------------------
(* Both stacks together *)

\* C37: in every reachable state the undo stack and the redo stack together
\* hold at most MAX_HISTORY transactions, so the undo stack holds at most
\* MAX_HISTORY after a redo, which pushes without a bound check.
C37_StacksWithinHistory ==
    /\ Len(undo_stack) + Len(redo_stack) <= MAX_HISTORY
    /\ lastAct \in {"redo", "redo_after_undo"} => Len(undo_stack) <= MAX_HISTORY

\* a redo filled the undo stack up to MAX_HISTORY after more than
\* MAX_HISTORY commits, the oldest of which was evicted
C37_Witness ==
    /\ lastAct \in {"redo", "redo_after_undo"}
    /\ Len(undo_stack) = MAX_HISTORY
    /\ redo_stack = <<>>
    /\ Len(obs.commits) > MAX_HISTORY

----------------------------------------------------------------------------
(* The selected subcalendar *)

\* C38 as stated: in every reachable state editor.subcalendars is not empty
\* and selected_subcal_index is an index of it, also after a subcalendar was
\* deleted.
C38_SelectedSubcalInRange ==
    /\ subcal.order # <<>>
    /\ subcal.selected \in 0..(Len(subcal.order) - 1)

----------------------------------------------------------------------------
(* Prompts: src/vical/input/normal.py, visual.py and prompt.py, and the     *)
(* commands of src/vical/core/commands.py that open a prompt.  The keys are *)
(* characters and the key codes ESC, ENTER and BS (backspace).              *)

\* prompt["user_input"], a str, from its characters
RECURSIVE Join(_)
Join(chars) == IF chars = <<>> THEN "" ELSE Head(chars) \o Join(Tail(chars))

\* the texts typed into a prompt
PromptTexts == {<<"a">>, <<"B">>, <<" ">>}
PromptChars == UNION {{u[k] : k \in 1..Len(u)} : u \in PromptTexts}

\* editor.prompt = {"label": ..., "user_input": "", "on_submit": ...}; the
\* callback is the function and the values its closure took at that moment
OpenPrompt(label, fn, it) ==
    <<[label |-> label, user_input |-> <<>>,
       on_submit |-> [fn |-> fn, item |-> it, date |-> selected_date]]>>

\* the command's `execute` reached through prompt["on_submit"](user_input):
\* the model, the stacks and Transaction._next_id after it, and whether it
\* raised.  _execute of input/command.py finds no command, since nothing
\* under src/vical/input registers one, and only sets editor.msg.
on_submit(cb, user_input) ==
    LET name == Join(user_input)
        same == [w |-> World, undo |-> undo_stack, redo |-> redo_stack,
                 id |-> next_id, raised |-> FALSE]
    IN IF cb.fn = "execute_command" \/ strip(user_input) = <<>> THEN same
       ELSE IF cb.fn = "rename_item"
       THEN LET op == OpSetItemAttr(cb.item, "name", item[cb.item].name, name)
                tx == [id |-> next_id, ops |-> <<op>>]
            IN IF item[cb.item].name = name THEN [same EXCEPT !.id = next_id + 1]
               ELSE [w |-> SetAttr(World, cb.item, "name", name),
                     undo |-> PushHistory(undo_stack, tx),
                     redo |-> redo_clear(redo_stack),
                     id |-> next_id + 1, raised |-> FALSE]
       ELSE IF NoSelectedSubcal THEN [same EXCEPT !.raised = TRUE]
       ELSE LET i == CHOOSE x \in NewUids : \A y \in NewUids : x <= y
                sc == subcal.order[subcal.selected + 1]
                made == IF cb.fn = "new_task" THEN NewItem("task", name, cb.date)
                        ELSE NewItem("event", name, selected_date)
                tx == [id |-> next_id, ops |-> <<OpInsertItem(sc, i)>>]
            IN [w |-> Attach([World EXCEPT !.item[i] = made], sc, i),
                undo |-> PushHistory(undo_stack, tx),
                redo |-> redo_clear(redo_stack),
                id |-> next_id + 1, raised |-> FALSE]

PromptObs(calls) ==
    [obs EXCEPT !.before = <<World, undo_stack, redo_stack, prompt>>, !.called = calls]

UNCHANGED_model ==
    UNCHANGED <<item, subcalendars, current_tx, undo_stack, redo_stack, next_id, halted>>

UNCHANGED_prompt ==
    UNCHANGED <<regs, selected_date, selected_item_index, cmdargs, limits, today,
                saved_tx, exited, input_buffer, subcal>>

\* normal_input(editor, key) for ESC, ':' and 'v'
normal_input(key) ==
    /\ Idle
    /\ editor_mode = "NORMAL"
    /\ CASE key = ":" -> /\ prompt' = OpenPrompt(":", "execute_command", 0)
                         /\ editor_mode' = "PROMPT"
         [] key = "v" -> /\ editor_mode' = "VISUAL"
                         /\ UNCHANGED prompt
         [] OTHER -> /\ editor_mode' = "NORMAL"
                     /\ UNCHANGED prompt
    /\ obs' = PromptObs(<<>>)
    /\ lastAct' = "normal_input"
    /\ UNCHANGED_model
    /\ UNCHANGED_prompt

\* normal_input(editor, key) for a key of NORMAL_KEYS bound to new_task or
\* rename_item: action(editor)
normal_key(action) ==
    /\ Idle
    /\ editor_mode = "NORMAL"
    /\ LET it == selected_item(World, selected_date, selected_item_index)
       IN IF action = "rename_item" /\ it = <<>>
          THEN UNCHANGED <<prompt, editor_mode>>
          ELSE /\ prompt' = OpenPrompt(IF action = "new_task" THEN "Enter task name: " ELSE "",
                                       action, IF action = "new_task" THEN 0 ELSE it[1])
               /\ editor_mode' = "PROMPT"
    /\ obs' = PromptObs(<<>>)
    /\ lastAct' = "normal_key"
    /\ UNCHANGED_model
    /\ UNCHANGED_prompt

\* visual_input(editor, key) for ESC and 'E': escape() returns from itself
\* only, so after new_event(editor) has opened its prompt and set the mode to
\* PROMPT, escape() sets the mode to NORMAL
visual_input(key) ==
    /\ Idle
    /\ editor_mode = "VISUAL"
    /\ prompt' = IF key = "E" THEN OpenPrompt("Enter event name: ", "new_event", 0)
                 ELSE prompt
    /\ editor_mode' = "NORMAL"
    /\ obs' = PromptObs(<<>>)
    /\ lastAct' = "visual_input"
    /\ UNCHANGED_model
    /\ UNCHANGED_prompt

\* prompt_input(ui, editor, key)
prompt_input(key) ==
    /\ Idle
    /\ editor_mode = "PROMPT"
    /\ prompt # <<>>
    /\ key \in PromptChars =>
          \E u \in PromptTexts :
              /\ Len(prompt[1].user_input) < Len(u)
              /\ SubSeq(u, 1, Len(prompt[1].user_input) + 1) = Append(prompt[1].user_input, key)
    /\ CASE key = "ESC" ->
              /\ editor_mode' = "NORMAL"
              /\ prompt' = <<>>
              /\ obs' = PromptObs(<<>>)
              /\ lastAct' = "prompt_esc"
              /\ UNCHANGED_model
         [] key = "ENTER" ->
              LET cb == prompt[1].on_submit
                  r == on_submit(cb, prompt[1].user_input)
              IN /\ next_id <= limits.maxTx
                 /\ NewUids # {}
                 /\ editor_mode' = "NORMAL"
                 /\ prompt' = <<>>
                 /\ item' = r.w.item
                 /\ subcalendars' = r.w.subcalendars
                 /\ undo_stack' = r.undo
                 /\ redo_stack' = r.redo
                 /\ next_id' = r.id
                 /\ halted' = r.raised
                 /\ obs' = PromptObs(<<[fn |-> cb.fn, text |-> prompt[1].user_input]>>)
                 /\ lastAct' = "prompt_enter"
                 /\ UNCHANGED current_tx
         [] key = "BS" ->
              /\ IF prompt[1].user_input = <<>>
                 THEN /\ editor_mode' = "NORMAL"
                      /\ prompt' = <<>>
                 ELSE /\ prompt' = [prompt EXCEPT ![1].user_input = Front(@)]
                      /\ UNCHANGED editor_mode
              /\ obs' = PromptObs(<<>>)
              /\ lastAct' = "prompt_backspace"
              /\ UNCHANGED_model
         [] OTHER ->
              /\ prompt' = [prompt EXCEPT ![1].user_input = Append(@, key)]
              /\ obs' = PromptObs(<<>>)
              /\ lastAct' = "prompt_char"
              /\ UNCHANGED editor_mode
              /\ UNCHANGED_model
    /\ UNCHANGED_prompt

\* Prompt specification: one task on the selected date in subcalendar 1
InitPrompt ==
    /\ InitEditor(load_subcalendars(
           EmptyWorld([i \in ItemUids |-> NewItem("task", "a", 1)]),
           [i \in ItemUids |-> IF i = 1 THEN 1 ELSE 0], 1), 1)
    /\ limits = [maxTx |-> MaxTx, maxOps |-> MaxTx, maxHistory |-> MAX_HISTORY,
                 items |-> {1}, attrs |-> TRUE]

NextPrompt ==
    \/ \E key \in {"ESC", ":", "v"} : normal_input(key)
    \/ \E action \in {"new_task", "rename_item"} : normal_key(action)
    \/ \E key \in {"ESC", "E"} : visual_input(key)
    \/ \E key \in {"ESC", "ENTER", "BS"} \cup PromptChars : prompt_input(key)
    \/ next_subcal

SpecPrompt == InitPrompt /\ [][NextPrompt]_vars

\* C39 as stated: between key events the editor is in PROMPT mode exactly
\* when a prompt is open; Enter called on_submit once, with the text typed,
\* and ESC called nothing.
C39_PromptModeIffPromptOpen ==
    /\ (editor_mode = "PROMPT") <=> (prompt # <<>>)
    /\ lastAct = "prompt_enter" =>
          obs.called = <<[fn |-> obs.before[4][1].on_submit.fn,
                          text |-> obs.before[4][1].user_input]>>
    /\ lastAct = "prompt_esc" => obs.called = <<>>
====
